---- MODULE Spec2Model ----
(***************************************************************************)
(* State-machine model of the graceful shutdown Manager (manager.go) and   *)
(* of its routineGroup.  Goroutines are modelled as program counters; one  *)
(* action is one synchronisation step of the source.  A critical section   *)
(* of Manager.lock (Lock, one access, Unlock) is one atomic action, a       *)
(* goroutine's local statements are folded into its next shared access, and *)
(* a job's goroutine ends (collect the failure, Done) in one action.        *)
(***************************************************************************)
EXTENDS Naturals, Integers, Sequences, FiniteSets, TLC

\* ------------------------------------------------------------------ bounds
\* Number of calls the client program makes in all: AddRunningJob,
\* AddShutdownJob and direct invocations of doGracefulShutdown.
MaxCalls == 2

\* Number of calls of Errors() the client program makes.
MaxErrorsCalls == 2

\* Number of calls of NewManagerWithContext and GetManager whose result the
\* client program keeps.
MaxAccessorCalls == 3

\* ---------------------------------------------------------- program constants
\* newOptions: shutdownTimeout: 30 * time.Second
DefaultTimeout == 30

\* The durations a caller configures with WithShutdownTimeout (0 = no timeout).
Timeouts == {0, DefaultTimeout}

\* signals (unix build): SIGINT, SIGTERM, SIGTSTP
signals == {"SIGINT", "SIGTERM", "SIGTSTP"}

\* The contexts the client program passes to WithContext.
Contexts == {"ctx", "other"}

\* What a job function does when it ends: returns nil, returns an error, panics.
Outcomes == {"nil", "err", "panic"}

RunIds == 1..MaxCalls
ShutIds == 1..MaxCalls

\* Invocations of doGracefulShutdown: 0 is the one made by handleSignals.
Listener == 0
Callers == 0..MaxCalls

\* The goroutines that take Manager.lock: the wrappers of the running and of
\* the shutdown jobs, the timeout branch of the watcher, a call of
\* AddShutdownJob, the registry copy of the body, a call of Errors().
LockUsers ==
    ({"run"} \X RunIds) \cup ({"shut"} \X ShutIds)
      \cup {<<"timeout", 0>>, <<"add", 0>>, <<"copy", 0>>, <<"errs", 0>>}

\* new(sync.RWMutex): nobody holds the write side (w) or the read side (r).
Unlocked == [w |-> {}, r |-> {}]

\* A goroutine that is not in a critical section; tmp is the slice value it
\* has read inside one.
Outside == [pc |-> "idle", tmp |-> <<>>]

VARIABLES
    created,          \* manager != nil (startOnce has run)
    shutdownTimeout,  \* Manager.shutdownTimeout
    parent,           \* Options.ctx of the Manager: the context start() received
    listeners,        \* handleSignals goroutines started by start()
    ctxDone,          \* the contexts of the client program that are cancelled
    cancelCalled,     \* shutdownCtxCancel has been called
    doneCtxDone,      \* doneCtx is cancelled: the channel of Done() is closed
    doneCancels,      \* number of calls of doneCtxCancel
    sigChan,          \* handleSignals' channel c (capacity 1)
    callPc,           \* position of each invocation of doGracefulShutdown
    snap,             \* the local copy `jobs` of each invocation
    idx,              \* the fan-out loop's position in `jobs`
    onceDone,         \* shutdownOnce.done
    onceM,            \* shutdownOnce.m is held
    bodyRuns,         \* times the body of shutdownOnce.Do has been entered
    runAtShutdown,    \* Manager.runAtShutdown
    wgCount,          \* routineGroup.waitGroup counter
    rjob,             \* running jobs: [pc, out]
    sjob,             \* shutdown jobs: [pc, out]
    launches,         \* times each shutdown job was handed to Run
    errors,           \* Manager.errors
    watchPc,          \* the goroutine of doGracefulShutdown's go func()
    waitPc,           \* the goroutine of waitForJobsWithTimeout's go func()
    joinCh,           \* waitForJobsWithTimeout's channel done is closed
    timerFired,       \* time.After(shutdownTimeout) has delivered
    raceOutcome,      \* how waitForJobsWithTimeout resolved
    preJobs,          \* running jobs launched before the body first fired
    views,            \* the slices that calls of Errors() returned to the client
    got,              \* what NewManagerWithContext and GetManager returned
    crashed,          \* an unrecovered panic has ended the process
    lock,             \* Manager.lock: the goroutines that hold its write and read side
    op                \* each goroutine's position in its critical section

vars == <<created, shutdownTimeout, parent, listeners, ctxDone, cancelCalled, doneCtxDone,
          doneCancels, sigChan, callPc, snap, idx, onceDone, onceM, bodyRuns,
          runAtShutdown, wgCount, rjob, sjob, launches,
          errors, watchPc, waitPc, joinCh, timerFired, raceOutcome, preJobs,
          views, got, crashed, lock, op>>

\* Groups used in UNCHANGED clauses.
cfgVars == <<created, shutdownTimeout, parent, listeners>>
ctxVars == <<ctxDone, cancelCalled, doneCtxDone, doneCancels>>
callVars == <<callPc, snap, idx, onceDone, onceM, bodyRuns>>
jobVars == <<rjob, sjob, launches, preJobs>>
watchVars == <<watchPc, waitPc, joinCh, timerFired, raceOutcome>>
apiVars == <<views, got>>
lockVars == <<lock, op>>

\* ----------------------------------------------------------------- helpers
\* The parent context of the Manager (Options.ctx) is cancelled.
parentDone == parent \in ctxDone

\* ShutdownContext().Done() is closed: shutdownCtx is derived from the parent
\* context, so it is cancelled by its own cancel function or by the parent.
ShutdownCtxDone == cancelCalled \/ parentDone

\* A failure record of Manager.errors.
JobFailure(src, id, what) == [src |-> src, id |-> id, what |-> what, d |-> 0]

\* fmt.Errorf("shutdown timeout exceeded: %v", g.shutdownTimeout)
TimeoutFailure == [src |-> "timeout", id |-> 0, what |-> "timeout", d |-> shutdownTimeout]

\* The calls the client program has made so far.
CallsMade ==
    Cardinality({r \in RunIds : rjob[r].pc # "none"})
    + Len(runAtShutdown)
    + Cardinality({c \in Callers : c # Listener /\ callPc[c] \notin {"off", "idle"}})

\* The job's goroutine is between Run's Add(1) and its deferred Done(): its
\* function is still executing.
Executing(j) == j.pc = "exec"

Init ==
    /\ created = FALSE
    /\ shutdownTimeout = 0
    /\ parent = "none"
    /\ listeners = 0
    /\ ctxDone = {}
    /\ cancelCalled = FALSE
    /\ doneCtxDone = FALSE
    /\ doneCancels = 0
    /\ sigChan = <<>>
    /\ callPc = [c \in Callers |-> "off"]
    /\ snap = [c \in Callers |-> <<>>]
    /\ idx = [c \in Callers |-> 1]
    /\ onceDone = FALSE
    /\ onceM = FALSE
    /\ bodyRuns = 0
    /\ runAtShutdown = <<>>
    /\ wgCount = 0
    /\ rjob = [r \in RunIds |-> [pc |-> "none", out |-> "none"]]
    /\ sjob = [s \in ShutIds |-> [pc |-> "none", out |-> "none"]]
    /\ launches = [s \in ShutIds |-> 0]
    /\ errors = <<>>
    /\ watchPc = "none"
    /\ waitPc = "none"
    /\ joinCh = FALSE
    /\ timerFired = FALSE
    /\ raceOutcome = "pending"
    /\ preJobs = {}
    /\ views = <<>>
    /\ got = <<>>
    /\ crashed = FALSE
    /\ lock = Unlocked
    /\ op = [p \in LockUsers |-> Outside]

\* ------------------------------------------------------------ construction
\* A newManager without startOnce: every call builds and starts a Manager.
newManagerNoOnce(t, ctx) ==
    /\ ~crashed
    /\ created' = TRUE
    /\ shutdownTimeout' = t
    /\ parent' = ctx
    /\ listeners' = listeners + 1
    /\ callPc' = [c \in Callers |-> IF c = Listener THEN "listen" ELSE "idle"]
    /\ UNCHANGED <<lockVars, ctxVars, sigChan, snap, idx, onceDone, onceM,
                   bodyRuns, runAtShutdown, wgCount, jobVars, errors, watchVars,
                   crashed>>

\* newManager: startOnce.Do builds the Manager from the options (timeout t,
\* parent context ctx) and start() derives the two contexts and starts
\* handleSignals.  A later call returns the existing instance.
newManager(t, ctx) ==
    /\ ~crashed
    /\ IF created
         THEN UNCHANGED <<cfgVars, callPc>>
         ELSE /\ created' = TRUE
              /\ shutdownTimeout' = t
              /\ parent' = ctx
              /\ listeners' = listeners + 1
              /\ callPc' = [c \in Callers |-> IF c = Listener THEN "listen" ELSE "idle"]
    /\ UNCHANGED <<lockVars, ctxVars, sigChan, snap, idx, onceDone, onceM,
                   bodyRuns, runAtShutdown, wgCount, jobVars, errors, watchVars,
                   crashed>>

\* NewManager(WithShutdownTimeout(t)) of a program that uses one context.
NewManager(t) ==
    /\ newManager(t, "ctx")
    /\ UNCHANGED apiVars

\* What an accessor call leaves with the client.
Ret(call, t, ctx, res) == [call |-> call, t |-> t, ctx |-> ctx, res |-> res]

\* NewManagerWithContext(ctx, WithShutdownTimeout(t)); the client notes
\* whether the call built the Manager or found it.
NewManagerWithContext(t, ctx) ==
    /\ Len(got) < MaxAccessorCalls
    /\ newManager(t, ctx)
    /\ got' = Append(got, Ret("NewManagerWithContext", t, ctx,
                              IF created THEN "existing" ELSE "created"))
    /\ UNCHANGED views

\* A GetManager without the nil check: it returns the nil pointer.
GetManagerNoCheck == "manager"

\* GetManager: panics if manager == nil, otherwise returns manager.
GetManagerResult == IF created THEN "manager" ELSE "panic"

\* The client calls GetManager (and recovers if it panics, as
\* TestMissingManager does).
GetManager ==
    /\ ~crashed
    /\ Len(got) < MaxAccessorCalls
    /\ got' = Append(got, Ret("GetManager", 0, "none", GetManagerResult))
    /\ UNCHANGED <<lockVars, views, cfgVars, ctxVars, sigChan, callVars, runAtShutdown,
                   wgCount, jobVars, errors, watchVars, crashed>>

\* ------------------------------------------------------------- environment
\* The operating system delivers a subscribed signal: signal.Notify sends
\* without blocking, so a signal that finds the channel full is dropped.
\* Only signals that arrive while handleSignals is in its loop are read.
DeliverSignal(sig) ==
    /\ ~crashed
    /\ callPc[Listener] = "listen"
    /\ sigChan' = IF Len(sigChan) < 1 THEN Append(sigChan, sig) ELSE sigChan
    /\ UNCHANGED <<lockVars, apiVars, cfgVars, ctxVars, callVars, runAtShutdown, wgCount,
                   jobVars, errors, watchVars, crashed>>

\* The owner of a context cancels it.
CancelContext(ctx) ==
    /\ ~crashed
    /\ ctx \notin ctxDone
    /\ ctxDone' = ctxDone \cup {ctx}
    /\ UNCHANGED <<lockVars, apiVars, cfgVars, cancelCalled, doneCtxDone,
                   doneCancels, sigChan, callVars, runAtShutdown, wgCount,
                   jobVars, errors, watchVars, crashed>>

\* The owner of the parent context (WithContext) cancels it.
CancelParent ==
    /\ created
    /\ CancelContext(parent)

\* ------------------------------------------------------------ routineGroup
\* A Run that starts the goroutine without waitGroup.Add(1).
RunWithoutAdd == wgCount

\* routineGroup.Run: waitGroup.Add(1), then the goroutine is started.
RunAdd == wgCount + 1

\* A goroutine without the deferred waitGroup.Done().
RunDoneMissing == wgCount

\* The goroutine's deferred waitGroup.Done().
RunDone == wgCount - 1

\* A Wait that returns at once, whatever the counter.
WaitNoBarrier == TRUE

\* routineGroup.Wait returns: the counter is zero.
WaitReturns == wgCount = 0

\* -------------------------------------------------------------------- jobs
\* Job wrappers without the deferred recover(): the panic leaves the goroutine.
PanicNotRecovered == FALSE

\* The deferred recover() of the job wrappers catches the panic.
PanicRecovered == TRUE

\* Wrappers that collect returned errors only, and drop a recovered panic.
CollectErrorsOnly(src, id, out) ==
    IF out = "err" THEN Append(errors, JobFailure(src, id, out)) ELSE errors

\* Wrappers that put the failure in front of the sequence.
CollectInFront(src, id, out) ==
    IF out = "nil" THEN errors ELSE <<JobFailure(src, id, out)>> \o errors

\* Wrappers that drop the failure of a job that ends after Done was closed.
CollectUntilDone(src, id, out) ==
    IF out = "nil" \/ doneCtxDone
      THEN errors
      ELSE Append(errors, JobFailure(src, id, out))

\* Wrappers whose error branch also runs after a recovered panic: a panic
\* leaves two failures.
CollectBoth(src, id, out) ==
    IF out = "nil" THEN errors
    ELSE IF out = "err" THEN Append(errors, JobFailure(src, id, out))
    ELSE errors \o <<JobFailure(src, id, "panic"), JobFailure(src, id, "err")>>

\* What the job wrappers append for a function that ended with `out`: nothing
\* for a nil return, one failure for an error or a recovered panic
\* (g.lock.Lock(); g.errors = append(g.errors, ...); g.lock.Unlock()).
Collect(src, id, out) ==
    IF out = "nil" THEN errors ELSE Append(errors, JobFailure(src, id, out))

\* An AddRunningJob that drops a job registered after shutdown has begun.
AddRunningJobUntilShutdown(r) ==
    /\ ~crashed
    /\ created
    /\ CallsMade < MaxCalls
    /\ rjob[r].pc = "none"
    /\ \A q \in RunIds : q < r => rjob[q].pc # "none"
    /\ IF ShutdownCtxDone
         THEN rjob' = [rjob EXCEPT ![r].pc = "done"] /\ UNCHANGED wgCount
         ELSE rjob' = [rjob EXCEPT ![r].pc = "exec"] /\ wgCount' = RunAdd
    /\ UNCHANGED <<lockVars, apiVars, cfgVars, ctxVars, sigChan, callVars, runAtShutdown,
                   sjob, launches, preJobs, errors, watchVars, crashed>>

\* AddRunningJob: the job is started at once on the routineGroup.  Calls are
\* numbered in the order they are made.
AddRunningJob(r) ==
    /\ ~crashed
    /\ created
    /\ CallsMade < MaxCalls
    /\ rjob[r].pc = "none"
    /\ \A q \in RunIds : q < r => rjob[q].pc # "none"
    /\ wgCount' = RunAdd
    /\ rjob' = [rjob EXCEPT ![r].pc = "exec"]
    /\ UNCHANGED <<lockVars, apiVars, cfgVars, ctxVars, sigChan,
                   callVars, runAtShutdown, sjob, launches, preJobs, errors,
                   watchVars, crashed>>

\* A wrapper in the manner of an errgroup: the first job that fails cancels
\* shutdownCtx.
RunningJobEndsCancels(r, out) ==
    /\ ~crashed
    /\ rjob[r].pc = "exec"
    /\ rjob' = [rjob EXCEPT ![r] = [pc |-> "done", out |-> out]]
    /\ errors' = Collect("run", r, out)
    /\ wgCount' = RunDone
    /\ cancelCalled' = (cancelCalled \/ out # "nil")
    /\ UNCHANGED <<lockVars, apiVars, cfgVars, ctxDone, doneCtxDone, doneCancels, sigChan,
                   callVars, runAtShutdown, sjob, launches, preJobs, watchVars, crashed>>

\* The job's goroutine runs to its end: f(g.shutdownCtx) returns nil, returns
\* an error or panics, the wrapper collects the failure, and Run's deferred
\* waitGroup.Done() releases the barrier.
RunningJobEnds(r, out) ==
    /\ ~crashed
    /\ rjob[r].pc = "exec"
    /\ IF out = "panic" /\ ~PanicRecovered
         THEN crashed' = TRUE /\ UNCHANGED <<rjob, errors, wgCount>>
         ELSE /\ rjob' = [rjob EXCEPT ![r] = [pc |-> "done", out |-> out]]
              /\ errors' = Collect("run", r, out)
              /\ wgCount' = RunDone
              /\ UNCHANGED crashed
    /\ UNCHANGED <<lockVars, apiVars, cfgVars, ctxVars, sigChan, callVars, runAtShutdown,
                   sjob, launches, preJobs, watchVars>>

\* An AddShutdownJob that also starts the job at once on the routineGroup.
AddShutdownJobRunsNow ==
    /\ ~crashed
    /\ created
    /\ CallsMade < MaxCalls
    /\ runAtShutdown' = Append(runAtShutdown, Len(runAtShutdown) + 1)
    /\ wgCount' = RunAdd
    /\ sjob' = [sjob EXCEPT ![Len(runAtShutdown) + 1] = [pc |-> "exec", out |-> "none"]]
    /\ UNCHANGED <<lockVars, apiVars, cfgVars, ctxVars, sigChan,
                   callVars, rjob, launches, preJobs, errors, watchVars, crashed>>

\* AddShutdownJob: Lock; g.runAtShutdown = append(g.runAtShutdown, f); Unlock.
\* Calls are numbered in the order in which they take the lock.
AddShutdownJob ==
    /\ ~crashed
    /\ created
    /\ CallsMade < MaxCalls
    /\ runAtShutdown' = Append(runAtShutdown, Len(runAtShutdown) + 1)
    /\ UNCHANGED <<lockVars, apiVars, cfgVars, ctxVars, sigChan,
                   callVars, wgCount, jobVars, errors, watchVars, crashed>>

\* The goroutine of a shutdown job runs to its end: doShutdownJob's f()
\* returns nil, returns an error or panics, the failure is collected, and
\* Run's deferred waitGroup.Done() releases the barrier.
doShutdownJob(s, out) ==
    /\ ~crashed
    /\ sjob[s].pc = "exec"
    /\ IF out = "panic" /\ ~PanicRecovered
         THEN crashed' = TRUE /\ UNCHANGED <<sjob, errors, wgCount>>
         ELSE /\ sjob' = [sjob EXCEPT ![s] = [pc |-> "done", out |-> out]]
              /\ errors' = Collect("shut", s, out)
              /\ wgCount' = RunDone
              /\ UNCHANGED crashed
    /\ UNCHANGED <<lockVars, apiVars, cfgVars, ctxVars, sigChan, callVars, runAtShutdown,
                   rjob, launches, preJobs, watchVars>>

\* ------------------------------------------------------------------ Errors
\* errors.New("modified error"), the value the client writes into a slice
\* that Errors() returned.
Modified == [src |-> "client", id |-> 0, what |-> "modified", d |-> 0]

\* An Errors that returns g.errors itself: the slice shares the backing array.
ErrorsNoCopy == [shared |-> TRUE, ret |-> errors, cur |-> errors]

\* Errors: RLock; result := make([]error, len(g.errors)); copy(result,
\* g.errors); RUnlock.  The result has its own backing array (shared = FALSE);
\* ret is the value as returned, cur is what the slice holds now.
ErrorsResult == [shared |-> FALSE, ret |-> errors, cur |-> errors]

\* The client calls Errors() and keeps the slice.
Errors ==
    /\ ~crashed
    /\ created
    /\ Len(views) < MaxErrorsCalls
    /\ views' = Append(views, ErrorsResult)
    /\ UNCHANGED <<lockVars, got, cfgVars, ctxVars, sigChan, callVars, runAtShutdown,
                   wgCount, jobVars, errors, watchVars, crashed>>

\* The client overwrites the first element of a slice it holds:
\* errs[0] = errors.New("modified error").  A slice that shares the backing
\* array of g.errors writes through to it.
MutateSnapshot(v) ==
    /\ ~crashed
    /\ Len(views[v].cur) > 0
    /\ views[v].cur[1] # Modified
    /\ views' = [views EXCEPT ![v].cur[1] = Modified]
    /\ errors' = IF views[v].shared THEN [errors EXCEPT ![1] = Modified] ELSE errors
    /\ UNCHANGED <<lockVars, got, cfgVars, ctxVars, sigChan, callVars, runAtShutdown,
                   wgCount, jobVars, watchVars, crashed>>

\* ------------------------------------------------------ doGracefulShutdown
\* A guard that never sees the flag set: every invocation runs the body.
OnceNeverDone == FALSE

\* shutdownOnce.Do: o.done.Load() != 0, read on the fast path and again under
\* o.m in doSlow.
OnceDoneLoad == onceDone

\* A handleSignals without the return statements: after the invocation the
\* loop listens again.
ReturnedKeepsListening(c) ==
    /\ callPc' = [callPc EXCEPT ![c] = IF c = Listener THEN "listen" ELSE "ret"]
    /\ sigChan' = sigChan

\* The invocation returns to its caller.  handleSignals returns right after
\* it: signal.Stop(c) runs and its channel goes out of scope.
Returned(c) ==
    /\ callPc' = [callPc EXCEPT ![c] = IF c = Listener THEN "stopped" ELSE "ret"]
    /\ sigChan' = IF c = Listener THEN <<>> ELSE sigChan

\* shutdownOnce.Do, fast path: a call that finds done set returns at once,
\* any other goes to doSlow.
OnceEnter(c) ==
    /\ IF OnceDoneLoad
         THEN Returned(c)
         ELSE callPc' = [callPc EXCEPT ![c] = "slow"] /\ UNCHANGED sigChan
    /\ UNCHANGED <<lockVars, apiVars, cfgVars, ctxVars, snap, idx, onceDone, onceM, bodyRuns,
                   runAtShutdown, wgCount, jobVars, errors, watchVars, crashed>>

\* A direct invocation of doGracefulShutdown (the tests call it).  Invocations
\* are numbered in the order they are made.
DirectCall(c) ==
    /\ ~crashed
    /\ c # Listener
    /\ CallsMade < MaxCalls
    /\ callPc[c] = "idle"
    /\ \A q \in Callers : (q # Listener /\ q < c) => callPc[q] # "idle"
    /\ OnceEnter(c)

\* handleSignals has logged the cause and invokes doGracefulShutdown.
ListenerCall ==
    /\ ~crashed
    /\ callPc[Listener] = "call"
    /\ OnceEnter(Listener)

\* A doSlow without o.m: no invocation waits for another.
OnceSlowNoLock(c) ==
    /\ ~crashed
    /\ callPc[c] = "slow"
    /\ IF OnceDoneLoad
         THEN /\ Returned(c)
              /\ UNCHANGED <<onceM, bodyRuns, preJobs>>
         ELSE /\ onceM' = TRUE
              /\ bodyRuns' = bodyRuns + 1
              /\ preJobs' = IF bodyRuns = 0
                              THEN {r \in RunIds : rjob[r].pc # "none"}
                              ELSE preJobs
              /\ callPc' = [callPc EXCEPT ![c] = "cancel"]
              /\ UNCHANGED sigChan
    /\ UNCHANGED <<lockVars, apiVars, cfgVars, ctxVars, snap, idx,
                   onceDone, runAtShutdown, wgCount, rjob, sjob, launches,
                   errors, watchVars, crashed>>

\* doSlow: o.m.Lock(); if done is set by now, unlock and return; otherwise the
\* body starts (with o.m held).
OnceSlow(c) ==
    /\ ~crashed
    /\ callPc[c] = "slow"
    /\ ~onceM
    /\ IF OnceDoneLoad
         THEN /\ Returned(c)
              /\ UNCHANGED <<onceM, bodyRuns, preJobs>>
         ELSE /\ onceM' = TRUE
              /\ bodyRuns' = bodyRuns + 1
              /\ preJobs' = IF bodyRuns = 0
                              THEN {r \in RunIds : rjob[r].pc # "none"}
                              ELSE preJobs
              /\ callPc' = [callPc EXCEPT ![c] = "cancel"]
              /\ UNCHANGED sigChan
    /\ UNCHANGED <<lockVars, apiVars, cfgVars, ctxVars, snap, idx,
                   onceDone, runAtShutdown, wgCount, rjob, sjob, launches,
                   errors, watchVars, crashed>>

\* A body that goes on to the snapshot without cancelling shutdownCtx.
ShutdownCancelMissing(c) ==
    /\ ~crashed
    /\ callPc[c] = "cancel"
    /\ callPc' = [callPc EXCEPT ![c] = "copy"]
    /\ UNCHANGED <<lockVars, apiVars, cfgVars, ctxVars, sigChan, snap, idx, onceDone, onceM,
                   bodyRuns, runAtShutdown, wgCount, jobVars, errors,
                   watchVars, crashed>>

\* g.shutdownCtxCancel(), the body's first statement.
ShutdownCancel(c) ==
    /\ ~crashed
    /\ callPc[c] = "cancel"
    /\ cancelCalled' = TRUE
    /\ callPc' = [callPc EXCEPT ![c] = "copy"]
    /\ UNCHANGED <<lockVars, apiVars, cfgVars, ctxDone, doneCtxDone, doneCancels, sigChan, snap,
                   idx, onceDone, onceM, bodyRuns, runAtShutdown, wgCount,
                   jobVars, errors, watchVars, crashed>>

\* A copy that misses the first registered job.
ShutdownCopySkipsFirst(c) ==
    /\ ~crashed
    /\ callPc[c] = "copy"
    /\ snap' = [snap EXCEPT ![c] = IF runAtShutdown = <<>> THEN <<>> ELSE Tail(runAtShutdown)]
    /\ idx' = [idx EXCEPT ![c] = 1]
    /\ callPc' = [callPc EXCEPT ![c] = "fanout"]
    /\ UNCHANGED <<lockVars, apiVars, cfgVars, ctxVars, sigChan, onceDone, onceM, bodyRuns,
                   runAtShutdown, wgCount, jobVars, errors, watchVars, crashed>>

\* RLock; jobs := make(...); copy(jobs, g.runAtShutdown); RUnlock.
ShutdownCopy(c) ==
    /\ ~crashed
    /\ callPc[c] = "copy"
    /\ snap' = [snap EXCEPT ![c] = runAtShutdown]
    /\ idx' = [idx EXCEPT ![c] = 1]
    /\ callPc' = [callPc EXCEPT ![c] = "fanout"]
    /\ UNCHANGED <<lockVars, apiVars, cfgVars, ctxVars, sigChan, onceDone, onceM, bodyRuns,
                   runAtShutdown, wgCount, jobVars, errors, watchVars, crashed>>

\* A fan-out that ranges over g.runAtShutdown itself instead of the copy.
ShutdownLaunchLive(c) ==
    /\ ~crashed
    /\ callPc[c] = "fanout"
    /\ idx[c] <= Len(runAtShutdown)
    /\ LET s == runAtShutdown[idx[c]] IN
         /\ wgCount' = RunAdd
         /\ sjob' = [sjob EXCEPT ![s] = [pc |-> "exec", out |-> "none"]]
         /\ launches' = [launches EXCEPT ![s] = launches[s] + 1]
    /\ idx' = [idx EXCEPT ![c] = idx[c] + 1]
    /\ UNCHANGED <<lockVars, apiVars, cfgVars, ctxVars, sigChan, callPc, snap, onceDone, onceM,
                   bodyRuns, runAtShutdown, rjob, preJobs, errors,
                   watchVars, crashed>>

\* One iteration of `for _, f := range jobs`: g.runningWaitGroup.Run of
\* doShutdownJob(f).
ShutdownLaunch(c) ==
    /\ ~crashed
    /\ callPc[c] = "fanout"
    /\ idx[c] <= Len(snap[c])
    /\ LET s == snap[c][idx[c]] IN
         /\ wgCount' = RunAdd
         /\ sjob' = [sjob EXCEPT ![s] = [pc |-> "exec", out |-> "none"]]
         /\ launches' = [launches EXCEPT ![s] = launches[s] + 1]
    /\ idx' = [idx EXCEPT ![c] = idx[c] + 1]
    /\ UNCHANGED <<lockVars, apiVars, cfgVars, ctxVars, sigChan, callPc, snap, onceDone, onceM,
                   bodyRuns, runAtShutdown, rjob, preJobs, errors,
                   watchVars, crashed>>

\* A watcher that cancels doneCtx without waiting for the race.
WatcherSkipsRace == "cancel"

\* A watcher that waits for the join whatever the timeout is.
WatcherAlwaysWaits == "wait"

\* A watcher without the test for timeout 0: it always selects.
WatcherNoZeroCheck == "select"

\* waitForJobsWithTimeout's first statement: with timeout 0 it calls
\* waitForJobs, otherwise it starts the waiting goroutine and selects.
WatcherEntry == IF shutdownTimeout = 0 THEN "wait" ELSE "select"

\* A body that starts the watcher after the first launch and leaves the loop.
ShutdownSpawnEarly(c) ==
    /\ ~crashed
    /\ callPc[c] = "fanout"
    /\ idx[c] > 1 \/ idx[c] > Len(snap[c])
    /\ watchPc' = WatcherEntry
    /\ waitPc' = IF shutdownTimeout = 0 THEN waitPc ELSE "wait"
    /\ callPc' = [callPc EXCEPT ![c] = "exit"]
    /\ UNCHANGED <<lockVars, apiVars, cfgVars, ctxVars, sigChan, snap, idx, onceDone, onceM,
                   bodyRuns, runAtShutdown, wgCount, jobVars, errors,
                   joinCh, timerFired, raceOutcome, crashed>>

\* The loop is over: go func() { g.waitForJobsWithTimeout(); g.doneCtxCancel() }()
ShutdownSpawn(c) ==
    /\ ~crashed
    /\ callPc[c] = "fanout"
    /\ idx[c] > Len(snap[c])
    /\ watchPc' = WatcherEntry
    /\ waitPc' = IF shutdownTimeout = 0 THEN waitPc ELSE "wait"
    /\ callPc' = [callPc EXCEPT ![c] = "exit"]
    /\ UNCHANGED <<lockVars, apiVars, cfgVars, ctxVars, sigChan, snap, idx, onceDone, onceM,
                   bodyRuns, runAtShutdown, wgCount, jobVars, errors,
                   joinCh, timerFired, raceOutcome, crashed>>

\* A body that ends by putting a fresh shutdownCtx in place of the cancelled one.
OnceExitRenewsContext(c) ==
    /\ ~crashed
    /\ callPc[c] = "exit"
    /\ onceDone' = TRUE
    /\ onceM' = FALSE
    /\ cancelCalled' = FALSE
    /\ Returned(c)
    /\ UNCHANGED <<lockVars, apiVars, cfgVars, ctxDone, doneCtxDone, doneCancels, snap, idx,
                   bodyRuns, runAtShutdown, wgCount, jobVars, errors, watchVars,
                   crashed>>

\* doSlow's deferred o.done.Store(1) and o.m.Unlock(); Do returns.
OnceExit(c) ==
    /\ ~crashed
    /\ callPc[c] = "exit"
    /\ onceDone' = TRUE
    /\ onceM' = FALSE
    /\ Returned(c)
    /\ UNCHANGED <<lockVars, apiVars, cfgVars, ctxVars, snap, idx, bodyRuns, runAtShutdown,
                   wgCount, jobVars, errors, watchVars, crashed>>

\* ----------------------------------------------------------- handleSignals
\* A loop in which any signal is a termination cause.
ListenerSignalAnyStops ==
    /\ ~crashed
    /\ callPc[Listener] = "listen"
    /\ Len(sigChan) > 0
    /\ sigChan' = Tail(sigChan)
    /\ callPc' = [callPc EXCEPT ![Listener] = "call"]
    /\ UNCHANGED <<lockVars, apiVars, cfgVars, ctxVars, snap, idx, onceDone, onceM, bodyRuns,
                   runAtShutdown, wgCount, jobVars, errors, watchVars, crashed>>

\* A loop that recognizes SIGINT only: SIGTERM is logged like any other signal.
ListenerSignalIntOnly ==
    /\ ~crashed
    /\ callPc[Listener] = "listen"
    /\ Len(sigChan) > 0
    /\ sigChan' = Tail(sigChan)
    /\ callPc' = [callPc EXCEPT ![Listener] =
                     IF Head(sigChan) = "SIGINT" THEN "call" ELSE "listen"]
    /\ UNCHANGED <<lockVars, apiVars, cfgVars, ctxVars, snap, idx, onceDone, onceM, bodyRuns,
                   runAtShutdown, wgCount, jobVars, errors, watchVars, crashed>>

\* case sig := <-c: SIGINT and SIGTERM are logged and lead to
\* doGracefulShutdown; any other signal is logged and the loop goes on.
ListenerSignal ==
    /\ ~crashed
    /\ callPc[Listener] = "listen"
    /\ Len(sigChan) > 0
    /\ sigChan' = Tail(sigChan)
    /\ callPc' = [callPc EXCEPT ![Listener] =
                     IF Head(sigChan) \in {"SIGINT", "SIGTERM"} THEN "call" ELSE "listen"]
    /\ UNCHANGED <<lockVars, apiVars, cfgVars, ctxVars, snap, idx, onceDone, onceM, bodyRuns,
                   runAtShutdown, wgCount, jobVars, errors, watchVars, crashed>>

\* A listener whose ctx.Done() case returns without invoking the routine.
ListenerCtxDoneReturns ==
    /\ ~crashed
    /\ callPc[Listener] = "listen"
    /\ parentDone
    /\ callPc' = [callPc EXCEPT ![Listener] = "stopped"]
    /\ sigChan' = <<>>
    /\ UNCHANGED <<lockVars, apiVars, cfgVars, ctxVars, snap, idx, onceDone, onceM,
                   bodyRuns, runAtShutdown, wgCount, jobVars, errors,
                   watchVars, crashed>>

\* case <-ctx.Done(): the parent context is cancelled.
ListenerCtxDone ==
    /\ ~crashed
    /\ callPc[Listener] = "listen"
    /\ parentDone
    /\ callPc' = [callPc EXCEPT ![Listener] = "call"]
    /\ UNCHANGED <<lockVars, apiVars, cfgVars, ctxVars, sigChan, snap, idx, onceDone, onceM,
                   bodyRuns, runAtShutdown, wgCount, jobVars, errors,
                   watchVars, crashed>>

\* -------------------------------------------------- waitForJobsWithTimeout
\* Timeout 0: g.waitForJobs() returns, and so does waitForJobsWithTimeout.
WatchWait ==
    /\ ~crashed
    /\ watchPc = "wait"
    /\ WaitReturns
    /\ raceOutcome' = "join"
    /\ watchPc' = "cancel"
    /\ UNCHANGED <<lockVars, apiVars, cfgVars, ctxVars, sigChan, callVars, runAtShutdown,
                   wgCount, jobVars, errors, waitPc, joinCh, timerFired, crashed>>

\* The waiting goroutine: g.waitForJobs() returns; close(done).
WaiterJoin ==
    /\ ~crashed
    /\ waitPc = "wait"
    /\ WaitReturns
    /\ joinCh' = TRUE
    /\ waitPc' = "end"
    /\ UNCHANGED <<lockVars, apiVars, cfgVars, ctxVars, sigChan, callVars, runAtShutdown,
                   wgCount, jobVars, errors, watchPc, timerFired,
                   raceOutcome, crashed>>

\* time.After(g.shutdownTimeout) delivers while the select is waiting.
TimerFire ==
    /\ ~crashed
    /\ watchPc = "select"
    /\ ~timerFired
    /\ timerFired' = TRUE
    /\ UNCHANGED <<lockVars, apiVars, cfgVars, ctxVars, sigChan, callVars, runAtShutdown,
                   wgCount, jobVars, errors, watchPc, waitPc, joinCh,
                   raceOutcome, crashed>>

\* select, case <-done: logs and returns.
SelectJoin ==
    /\ ~crashed
    /\ watchPc = "select"
    /\ joinCh
    /\ raceOutcome' = "join"
    /\ watchPc' = "cancel"
    /\ UNCHANGED <<lockVars, apiVars, cfgVars, ctxVars, sigChan, callVars, runAtShutdown,
                   wgCount, jobVars, errors, waitPc, joinCh, timerFired, crashed>>

\* A timeout branch that logs and returns without recording the failure.
SelectTimeoutNoRecord ==
    /\ ~crashed
    /\ watchPc = "select"
    /\ timerFired
    /\ raceOutcome' = "timeout"
    /\ watchPc' = "cancel"
    /\ UNCHANGED <<lockVars, apiVars, cfgVars, ctxVars, sigChan, callVars, runAtShutdown,
                   wgCount, jobVars, errors, waitPc, joinCh, timerFired, crashed>>

\* A timeout branch that records the failure and selects again.
SelectTimeoutAgain ==
    /\ ~crashed
    /\ watchPc = "select"
    /\ timerFired
    /\ raceOutcome' = "timeout"
    /\ errors' = Append(errors, TimeoutFailure)
    /\ watchPc' = IF joinCh THEN "cancel" ELSE "select"
    /\ UNCHANGED <<lockVars, apiVars, cfgVars, ctxVars, sigChan, callVars, runAtShutdown,
                   wgCount, jobVars, waitPc, joinCh, timerFired, crashed>>

\* select, case <-time.After(...): logs, then Lock;
\* g.errors = append(g.errors, msg); Unlock, and returns.
SelectTimeout ==
    /\ ~crashed
    /\ watchPc = "select"
    /\ timerFired
    /\ raceOutcome' = "timeout"
    /\ errors' = Append(errors, TimeoutFailure)
    /\ watchPc' = "cancel"
    /\ UNCHANGED <<lockVars, apiVars, cfgVars, ctxVars, sigChan, callVars, runAtShutdown,
                   wgCount, jobVars, waitPc, joinCh, timerFired, crashed>>

\* The watcher's last statement: g.doneCtxCancel() closes the Done channel.
WatchCancel ==
    /\ ~crashed
    /\ watchPc = "cancel"
    /\ doneCtxDone' = TRUE
    /\ doneCancels' = doneCancels + 1
    /\ watchPc' = "end"
    /\ UNCHANGED <<lockVars, apiVars, cfgVars, ctxDone, cancelCalled, sigChan, callVars,
                   runAtShutdown, wgCount, jobVars, errors, waitPc, joinCh,
                   timerFired, raceOutcome, crashed>>

\* ------------------------------------------------------------ specification
Next ==
    \/ \E t \in Timeouts : NewManager(t)
    \/ \E sig \in signals : DeliverSignal(sig)
    \/ CancelParent
    \/ \E r \in RunIds : AddRunningJob(r)
    \/ \E r \in RunIds, out \in Outcomes : RunningJobEnds(r, out)
    \/ AddShutdownJob
    \/ \E s \in ShutIds, out \in Outcomes : doShutdownJob(s, out)
    \/ \E c \in Callers : DirectCall(c)
    \/ ListenerCall
    \/ \E c \in Callers : OnceSlow(c)
    \/ \E c \in Callers : ShutdownCancel(c)
    \/ \E c \in Callers : ShutdownCopy(c)
    \/ \E c \in Callers : ShutdownLaunch(c)
    \/ \E c \in Callers : ShutdownSpawn(c)
    \/ \E c \in Callers : OnceExit(c)
    \/ ListenerSignal
    \/ ListenerCtxDone
    \/ WatchWait
    \/ WaiterJoin
    \/ TimerFire
    \/ SelectJoin
    \/ SelectTimeout
    \/ WatchCancel

Spec == Init /\ [][Next]_vars

\* A step of one of the coordinator's own goroutines: the invocation that
\* runs the body, the watcher, the waiting goroutine, the deadline timer.
CoordinatorStep ==
    \/ \E c \in Callers : OnceSlow(c)
    \/ \E c \in Callers : ShutdownCancel(c)
    \/ \E c \in Callers : ShutdownCopy(c)
    \/ \E c \in Callers : ShutdownLaunch(c)
    \/ \E c \in Callers : ShutdownSpawn(c)
    \/ \E c \in Callers : OnceExit(c)
    \/ WatchWait
    \/ WaiterJoin
    \/ TimerFire
    \/ SelectJoin
    \/ SelectTimeout
    \/ WatchCancel

\* Fairness of the coordinator's goroutines: the Go scheduler does not leave
\* them all unscheduled for ever while one of them can run, and the deadline
\* timer delivers.  Nothing is assumed of the job functions: a job may never
\* return.
Fairness == WF_vars(CoordinatorStep)

FairSpec == Spec /\ Fairness

\* ------------------------------------------------- the program of TestWithError
\* TestWithError registers two running jobs and two shutdown jobs.
TestJobs == {1, 2}

\* The state after NewManagerWithContext(ctx), two calls of AddRunningJob and
\* two of AddShutdownJob: both running jobs are on the routineGroup and both
\* shutdown jobs are in runAtShutdown.
TestWithErrorInit ==
    /\ created = TRUE
    /\ shutdownTimeout \in Timeouts
    /\ parent = "ctx"
    /\ listeners = 1
    /\ ctxDone = {}
    /\ cancelCalled = FALSE
    /\ doneCtxDone = FALSE
    /\ doneCancels = 0
    /\ sigChan = <<>>
    /\ callPc = [c \in Callers |-> IF c = Listener THEN "listen" ELSE "idle"]
    /\ snap = [c \in Callers |-> <<>>]
    /\ idx = [c \in Callers |-> 1]
    /\ onceDone = FALSE
    /\ onceM = FALSE
    /\ bodyRuns = 0
    /\ runAtShutdown = <<1, 2>>
    /\ wgCount = Cardinality(TestJobs)
    /\ rjob = [r \in RunIds |-> IF r \in TestJobs
                                  THEN [pc |-> "exec", out |-> "none"]
                                  ELSE [pc |-> "none", out |-> "none"]]
    /\ sjob = [s \in ShutIds |-> [pc |-> "none", out |-> "none"]]
    /\ launches = [s \in ShutIds |-> 0]
    /\ errors = <<>>
    /\ watchPc = "none"
    /\ waitPc = "none"
    /\ joinCh = FALSE
    /\ timerFired = FALSE
    /\ raceOutcome = "pending"
    /\ preJobs = {}
    /\ views = <<>>
    /\ got = <<>>
    /\ crashed = FALSE
    /\ lock = Unlocked
    /\ op = [p \in LockUsers |-> Outside]

\* The rest of the test: its goroutine cancels the parent context, the jobs
\* end, and the Manager shuts down.  The test makes no further call and sends
\* no signal.
TestWithErrorNext ==
    \/ CancelParent
    \/ \E r \in RunIds, out \in Outcomes : RunningJobEnds(r, out)
    \/ \E s \in ShutIds, out \in Outcomes : doShutdownJob(s, out)
    \/ ListenerCtxDone
    \/ ListenerCall
    \/ OnceSlow(Listener)
    \/ ShutdownCancel(Listener)
    \/ ShutdownCopy(Listener)
    \/ ShutdownLaunch(Listener)
    \/ ShutdownSpawn(Listener)
    \/ OnceExit(Listener)
    \/ WatchWait
    \/ WaiterJoin
    \/ TimerFire
    \/ SelectJoin
    \/ SelectTimeout
    \/ WatchCancel

TestWithErrorSpec == TestWithErrorInit /\ [][TestWithErrorNext]_vars

\* The test's goroutine does cancel the context, handleSignals is scheduled,
\* and the job functions of the test all end (they return or panic).
TestWithErrorFairness ==
    /\ WF_vars(CancelParent)
    /\ WF_vars(ListenerCtxDone)
    /\ WF_vars(ListenerCall)
    /\ WF_vars(CoordinatorStep)
    /\ \A r \in TestJobs : WF_vars(\E out \in Outcomes : RunningJobEnds(r, out))
    /\ \A s \in TestJobs : WF_vars(\E out \in Outcomes : doShutdownJob(s, out))

TestWithErrorFairSpec == TestWithErrorSpec /\ TestWithErrorFairness

\* How the job functions of TestWithError end: a running job returns nil when
\* it finds the context cancelled, otherwise the first returns an error and
\* the second panics; the first shutdown job panics, the second returns an
\* error.
TestOutcomes(src, j) ==
    IF src = "run"
      THEN (IF j = 1 THEN {"nil", "err"} ELSE {"nil", "panic"})
      ELSE (IF j = 1 THEN {"panic"} ELSE {"err"})

\* TestWithError with these job functions, its two calls of Errors() and its
\* write into a result, made at any moment.
ErrorsNext ==
    \/ CancelParent
    \/ \E r \in TestJobs : \E out \in TestOutcomes("run", r) : RunningJobEnds(r, out)
    \/ \E s \in TestJobs : \E out \in TestOutcomes("shut", s) : doShutdownJob(s, out)
    \/ ListenerCtxDone
    \/ ListenerCall
    \/ OnceSlow(Listener)
    \/ ShutdownCancel(Listener)
    \/ ShutdownCopy(Listener)
    \/ ShutdownLaunch(Listener)
    \/ ShutdownSpawn(Listener)
    \/ OnceExit(Listener)
    \/ WatchWait
    \/ WaiterJoin
    \/ TimerFire
    \/ SelectJoin
    \/ SelectTimeout
    \/ WatchCancel
    \/ Errors
    \/ \E v \in 1..Len(views) : MutateSnapshot(v)

ErrorsSpec == TestWithErrorInit /\ [][ErrorsNext]_vars

\* A program that constructs and fetches the Manager several times, with
\* different options, registers jobs, and cancels its contexts.  It sends no
\* signal and makes no direct call, so a cancelled parent context is the only
\* trigger.
ConstructNext ==
    \/ \E t \in Timeouts, ctx \in Contexts : NewManagerWithContext(t, ctx)
    \/ GetManager
    \/ \E ctx \in Contexts : CancelContext(ctx)
    \/ \E r \in RunIds : AddRunningJob(r)
    \/ AddShutdownJob
    \/ ListenerCtxDone
    \/ ListenerCall
    \/ OnceSlow(Listener)
    \/ ShutdownCancel(Listener)
    \/ ShutdownCopy(Listener)
    \/ ShutdownLaunch(Listener)
    \/ ShutdownSpawn(Listener)
    \/ OnceExit(Listener)
    \/ WatchWait
    \/ WaiterJoin
    \/ TimerFire
    \/ SelectJoin
    \/ SelectTimeout
    \/ WatchCancel

ConstructSpec == Init /\ [][ConstructNext]_vars

\* ------------------------------------------- a job registered before the trigger
\* The state after NewManager and one call of AddShutdownJob that has
\* returned: nothing has triggered the shutdown yet.
RegisteredInit ==
    /\ created = TRUE
    /\ shutdownTimeout \in Timeouts
    /\ parent = "ctx"
    /\ listeners = 1
    /\ ctxDone = {}
    /\ cancelCalled = FALSE
    /\ doneCtxDone = FALSE
    /\ doneCancels = 0
    /\ sigChan = <<>>
    /\ callPc = [c \in Callers |-> IF c = Listener THEN "listen" ELSE "idle"]
    /\ snap = [c \in Callers |-> <<>>]
    /\ idx = [c \in Callers |-> 1]
    /\ onceDone = FALSE
    /\ onceM = FALSE
    /\ bodyRuns = 0
    /\ runAtShutdown = <<1>>
    /\ wgCount = 0
    /\ rjob = [r \in RunIds |-> [pc |-> "none", out |-> "none"]]
    /\ sjob = [s \in ShutIds |-> [pc |-> "none", out |-> "none"]]
    /\ launches = [s \in ShutIds |-> 0]
    /\ errors = <<>>
    /\ watchPc = "none"
    /\ waitPc = "none"
    /\ joinCh = FALSE
    /\ timerFired = FALSE
    /\ raceOutcome = "pending"
    /\ preJobs = {}
    /\ views = <<>>
    /\ got = <<>>
    /\ crashed = FALSE
    /\ lock = Unlocked
    /\ op = [p \in LockUsers |-> Outside]

\* From there the program goes on as any program does: further
\* registrations, signals, cancellation and direct calls, concurrently.
RegisteredSpec == RegisteredInit /\ [][Next]_vars

\* ------------------------------------------ the program of TestRunningAndShutdownJob
\* The state after NewManager, AddRunningJob and AddShutdownJob
\* (TestRunningAndShutdownJob, TestNewManagerWithContext).
TestRunningAndShutdownJobInit ==
    /\ created = TRUE
    /\ shutdownTimeout \in Timeouts
    /\ parent = "ctx"
    /\ listeners = 1
    /\ ctxDone = {}
    /\ cancelCalled = FALSE
    /\ doneCtxDone = FALSE
    /\ doneCancels = 0
    /\ sigChan = <<>>
    /\ callPc = [c \in Callers |-> IF c = Listener THEN "listen" ELSE "idle"]
    /\ snap = [c \in Callers |-> <<>>]
    /\ idx = [c \in Callers |-> 1]
    /\ onceDone = FALSE
    /\ onceM = FALSE
    /\ bodyRuns = 0
    /\ runAtShutdown = <<1>>
    /\ wgCount = 1
    /\ rjob = [r \in RunIds |-> IF r = 1 THEN [pc |-> "exec", out |-> "none"]
                                      ELSE [pc |-> "none", out |-> "none"]]
    /\ sjob = [s \in ShutIds |-> [pc |-> "none", out |-> "none"]]
    /\ launches = [s \in ShutIds |-> 0]
    /\ errors = <<>>
    /\ watchPc = "none"
    /\ waitPc = "none"
    /\ joinCh = FALSE
    /\ timerFired = FALSE
    /\ raceOutcome = "pending"
    /\ preJobs = {}
    /\ views = <<>>
    /\ got = <<>>
    /\ crashed = FALSE
    /\ lock = Unlocked
    /\ op = [p \in LockUsers |-> Outside]

\* The test's goroutine calls m.doGracefulShutdown().
TestDirectCall ==
    /\ ~crashed
    /\ callPc[1] = "idle"
    /\ OnceEnter(1)

\* The running job of the test loops until it finds ctx.Done() closed, then
\* returns nil.
TestRunningJobEnds ==
    /\ ShutdownCtxDone
    /\ RunningJobEnds(1, "nil")

\* The rest of the tests: the trigger is a direct call, the cancellation of
\* the parent context or a signal (any of them, also several), the running
\* job returns once it sees the cancellation, the shutdown job returns nil.
TestRunningAndShutdownJobNext ==
    \/ TestDirectCall
    \/ CancelParent
    \/ \E sig \in signals : DeliverSignal(sig)
    \/ ListenerSignal
    \/ ListenerCtxDone
    \/ ListenerCall
    \/ \E c \in Callers : OnceSlow(c)
    \/ \E c \in Callers : ShutdownCancel(c)
    \/ \E c \in Callers : ShutdownCopy(c)
    \/ \E c \in Callers : ShutdownLaunch(c)
    \/ \E c \in Callers : ShutdownSpawn(c)
    \/ \E c \in Callers : OnceExit(c)
    \/ TestRunningJobEnds
    \/ doShutdownJob(1, "nil")
    \/ WatchWait
    \/ WaiterJoin
    \/ TimerFire
    \/ SelectJoin
    \/ SelectTimeout
    \/ WatchCancel

TestRunningAndShutdownJobSpec ==
    TestRunningAndShutdownJobInit /\ [][TestRunningAndShutdownJobNext]_vars

\* ------------------------------------------------- after shutdown has begun
\* The state after NewManager and a direct call of doGracefulShutdown whose
\* body has just called shutdownCtxCancel(): shutdown has begun, the registry
\* has not been copied yet.
BegunByDirectCall ==
    /\ created = TRUE
    /\ shutdownTimeout \in Timeouts
    /\ parent = "ctx"
    /\ listeners = 1
    /\ ctxDone = {}
    /\ cancelCalled = TRUE
    /\ doneCtxDone = FALSE
    /\ doneCancels = 0
    /\ sigChan = <<>>
    /\ callPc = [c \in Callers |-> IF c = Listener THEN "listen"
                                    ELSE IF c = 1 THEN "copy" ELSE "idle"]
    /\ snap = [c \in Callers |-> <<>>]
    /\ idx = [c \in Callers |-> 1]
    /\ onceDone = FALSE
    /\ onceM = TRUE
    /\ bodyRuns = 1
    /\ runAtShutdown = <<>>
    /\ wgCount = 0
    /\ rjob = [r \in RunIds |-> [pc |-> "none", out |-> "none"]]
    /\ sjob = [s \in ShutIds |-> [pc |-> "none", out |-> "none"]]
    /\ launches = [s \in ShutIds |-> 0]
    /\ errors = <<>>
    /\ watchPc = "none"
    /\ waitPc = "none"
    /\ joinCh = FALSE
    /\ timerFired = FALSE
    /\ raceOutcome = "pending"
    /\ preJobs = {}
    /\ views = <<>>
    /\ got = <<>>
    /\ crashed = FALSE
    /\ lock = Unlocked
    /\ op = [p \in LockUsers |-> Outside]

\* The state after NewManager and the cancellation of the parent context:
\* shutdownCtx, derived from it, is cancelled; handleSignals has not run yet.
BegunByParent ==
    /\ created = TRUE
    /\ shutdownTimeout \in Timeouts
    /\ parent = "ctx"
    /\ listeners = 1
    /\ ctxDone = {"ctx"}
    /\ cancelCalled = FALSE
    /\ doneCtxDone = FALSE
    /\ doneCancels = 0
    /\ sigChan = <<>>
    /\ callPc = [c \in Callers |-> IF c = Listener THEN "listen" ELSE "idle"]
    /\ snap = [c \in Callers |-> <<>>]
    /\ idx = [c \in Callers |-> 1]
    /\ onceDone = FALSE
    /\ onceM = FALSE
    /\ bodyRuns = 0
    /\ runAtShutdown = <<>>
    /\ wgCount = 0
    /\ rjob = [r \in RunIds |-> [pc |-> "none", out |-> "none"]]
    /\ sjob = [s \in ShutIds |-> [pc |-> "none", out |-> "none"]]
    /\ launches = [s \in ShutIds |-> 0]
    /\ errors = <<>>
    /\ watchPc = "none"
    /\ waitPc = "none"
    /\ joinCh = FALSE
    /\ timerFired = FALSE
    /\ raceOutcome = "pending"
    /\ preJobs = {}
    /\ views = <<>>
    /\ got = <<>>
    /\ crashed = FALSE
    /\ lock = Unlocked
    /\ op = [p \in LockUsers |-> Outside]

\* Shutdown has begun: ShutdownContext() is cancelled.
ShutdownBegunInit == BegunByDirectCall \/ BegunByParent

\* From there the program goes on as any program does.
ShutdownBegunSpec == ShutdownBegunInit /\ [][Next]_vars

\* ------------------------------------------------------------------ claims
\* The timeout failure is in Manager.errors.
HasTimeoutFailure == \E i \in 1..Len(errors) : errors[i] = TimeoutFailure

\* C1: however many invocations of doGracefulShutdown are made, by the
\* listener (signal or parent context) and directly, concurrently or one
\* after the other, the body of shutdownOnce.Do is entered at most once and
\* every shutdown job is handed to the routineGroup at most once.
C1_BodyAtMostOnce ==
    /\ bodyRuns <= 1
    /\ \A s \in ShutIds : launches[s] <= 1

\* C1 witness: the listener's invocation and a direct one have both returned,
\* the body ran and launched the registered shutdown job.
C1_Witness ==
    /\ callPc[Listener] = "stopped"
    /\ callPc[1] = "ret"
    /\ bodyRuns = 1
    /\ launches[1] = 1

\* C2: doneCtxCancel is called at most once, and the Done channel is closed
\* only when waitForJobsWithTimeout has returned: the join completed or the
\* timer fired.  While the watcher still waits, Done is open.
C2_DoneOnlyAfterRace ==
    /\ doneCancels <= 1
    /\ watchPc \in {"wait", "select"} => ~doneCtxDone
    /\ doneCtxDone =>
         \/ raceOutcome = "join" /\ (shutdownTimeout = 0 \/ joinCh) /\ ~HasTimeoutFailure
         \/ raceOutcome = "timeout" /\ timerFired /\ HasTimeoutFailure

\* C2 witness: Done is closed after the timeout branch resolved the race.
C2_Witness == doneCtxDone /\ doneCancels = 1 /\ raceOutcome = "timeout"

\* C3: with a non-zero timeout, once the body of the shutdown routine has
\* started, Done is eventually closed, whether or not the jobs ever return
\* (the timer is assumed to fire: WF of TimerFire).
C3_DoneEventually == (shutdownTimeout # 0 /\ bodyRuns > 0) ~> doneCtxDone

\* C3 witness: Done is closed under a non-zero timeout while a running job
\* is still executing its function.
C3_Witness ==
    /\ shutdownTimeout # 0
    /\ doneCtxDone
    /\ \E r \in RunIds : Executing(rjob[r])

\* C4: with a non-zero timeout, whenever Done is closed and a running job
\* launched before the body fired has not finished, Manager.errors already
\* holds the timeout failure naming the configured duration; the timeout
\* failure is in the sequence from the moment the timeout branch resolved.
C4_TimeoutRecordedBeforeDone ==
    /\ (shutdownTimeout # 0 /\ doneCtxDone /\ \E r \in preJobs : rjob[r].pc # "done")
          => HasTimeoutFailure
    /\ (doneCtxDone /\ raceOutcome = "timeout") => HasTimeoutFailure
    /\ HasTimeoutFailure => watchPc \in {"cancel", "end"}

\* C4 witness: Done closed by the timeout with the pre-trigger job unfinished
\* and the failure of DefaultTimeout recorded.
C4_Witness ==
    /\ doneCtxDone
    /\ \E r \in preJobs : rjob[r].pc # "done"
    /\ \E i \in 1..Len(errors) : errors[i].src = "timeout" /\ errors[i].d = DefaultTimeout

\* C5: with timeout 0 no timeout failure is ever appended, and Done is closed
\* only after the join returned: every running job launched before the body
\* fired has called its deferred Done.
C5_ZeroTimeoutWaitsForJoin ==
    shutdownTimeout = 0 =>
        /\ \A i \in 1..Len(errors) : errors[i].src # "timeout"
        /\ ~timerFired
        /\ doneCtxDone => /\ raceOutcome = "join"
                          /\ \A r \in preJobs : rjob[r].pc = "done"

\* C5 witness: timeout 0, Done closed, and a job launched before the trigger
\* (which has then finished).
C5_Witness ==
    /\ created
    /\ shutdownTimeout = 0
    /\ doneCtxDone
    /\ preJobs # {}

\* C6: in every state where a shutdown job has been launched, shutdownCtx is
\* cancelled (so a shutdown job waiting on ShutdownContext().Done() does not
\* block).
C6_CancelledBeforeShutdownJobs ==
    (\E s \in ShutIds : sjob[s].pc # "none") => ShutdownCtxDone

\* C6 witness: a shutdown job is executing, the parent context is live and
\* shutdownCtx was cancelled by the body.
C6_Witness ==
    /\ \E s \in ShutIds : Executing(sjob[s])
    /\ ~parentDone
    /\ cancelCalled

\* C7 (as stated): no shutdown job is executing while a running job launched
\* before the shutdown trigger is still executing its function.
C7_ShutdownJobsAfterRunningJobs ==
    \A s \in ShutIds : \A r \in preJobs :
        ~(Executing(sjob[s]) /\ Executing(rjob[r]))

FailuresOf(src, id) ==
    {i \in 1..Len(errors) : errors[i].src = src /\ errors[i].id = id}

\* The job's function returned an error or panicked.
Failed(j) == j.pc = "done" /\ j.out \in {"err", "panic"}

\* The job's function panicked.
Faulted(j) == j.pc = "done" /\ j.out = "panic"

\* The jobs that hold the routineGroup's counter.
ExecutingCount ==
    Cardinality({r \in RunIds : Executing(rjob[r])})
    + Cardinality({s \in ShutIds : Executing(sjob[s])})

\* The four jobs of TestWithError have all ended.
TestJobsDone ==
    \A j \in TestJobs : rjob[j].pc = "done" /\ sjob[j].pc = "done"

\* C9: Manager.errors holds exactly one failure for every job whose function
\* returned an error or panicked, of the matching kind, and none for a job
\* that returned nil or has not ended; in TestWithError, once Done is closed
\* without a timeout failure all four jobs have ended and Manager.errors
\* holds as many failures as jobs failed (four when all four fail).
C9_EachFailureOnce ==
    /\ \A r \in RunIds :
         /\ Cardinality(FailuresOf("run", r)) = IF Failed(rjob[r]) THEN 1 ELSE 0
         /\ \A i \in FailuresOf("run", r) : errors[i].what = rjob[r].out
    /\ \A s \in ShutIds :
         /\ Cardinality(FailuresOf("shut", s)) = IF Failed(sjob[s]) THEN 1 ELSE 0
         /\ \A i \in FailuresOf("shut", s) : errors[i].what = sjob[s].out
    /\ (doneCtxDone /\ ~HasTimeoutFailure) =>
         /\ TestJobsDone
         /\ Len(errors) = Cardinality({r \in RunIds : Failed(rjob[r])})
                          + Cardinality({s \in ShutIds : Failed(sjob[s])})

\* C9 witness: the outcome of TestWithError: an error and a panic among the
\* running jobs, a panic and an error among the shutdown jobs, Done closed
\* without timeout, four failures.
C9_Witness ==
    /\ doneCtxDone
    /\ ~HasTimeoutFailure
    /\ rjob[1].out = "err" /\ rjob[2].out = "panic"
    /\ sjob[1].out = "panic" /\ sjob[2].out = "err"
    /\ Len(errors) = 4

\* C10: a panic in a job never ends the process, the routineGroup's counter
\* always equals the number of jobs still executing (a job that panicked has
\* released it), and in TestWithError once a job has panicked the other jobs
\* still all end and Done is closed.
C10_FaultContained ==
    /\ [](~crashed /\ wgCount = ExecutingCount)
    /\ ((\E j \in TestJobs : Faulted(rjob[j]) \/ Faulted(sjob[j]))
          ~> (TestJobsDone /\ doneCtxDone))

\* C10 witness: a running job and a shutdown job have panicked, the other two
\* jobs ended after them, and Done was closed by the join.
C10_Witness ==
    /\ ~crashed
    /\ Faulted(rjob[1]) /\ Faulted(sjob[1])
    /\ rjob[2].pc = "done" /\ sjob[2].pc = "done"
    /\ Len(errors) = 4
    /\ errors[1].what = "panic"
    /\ raceOutcome = "join"
    /\ doneCtxDone

\* s is a prefix of t.
IsPrefix(s, t) == Len(s) <= Len(t) /\ \A i \in 1..Len(s) : s[i] = t[i]

\* C11: whatever the client writes into slices that Errors() returned,
\* Manager.errors never holds the written value and no call of Errors()
\* ever returns it.
C11_SnapshotIsolated ==
    /\ \A i \in 1..Len(errors) : errors[i] # Modified
    /\ \A v \in 1..Len(views) :
         \A i \in 1..Len(views[v].ret) : views[v].ret[i] # Modified

\* C11 witness: the client overwrote the first element of its first slice,
\* and a second call of Errors() returned more failures, the first of them
\* the one that the first call returned.
C11_Witness ==
    /\ Len(views) = 2
    /\ Len(views[1].ret) > 0
    /\ views[1].cur[1] = Modified
    /\ Len(views[2].ret) > Len(views[1].ret)
    /\ views[2].ret[1] = views[1].ret[1]
    /\ errors[1] = views[1].ret[1]

\* C12: Manager.errors only grows at its end, every result of Errors() is a
\* prefix of Manager.errors, and of two results the earlier is a prefix of
\* the later, while jobs and the timeout branch append concurrently.
C12_AppendOnlyPrefix ==
    /\ [](/\ \A v \in 1..Len(views) : IsPrefix(views[v].ret, errors)
          /\ \A v, w \in 1..Len(views) :
               v < w => IsPrefix(views[v].ret, views[w].ret))
    /\ [][IsPrefix(errors, errors')]_vars

\* C12 witness: two results of different lengths, taken while failures were
\* being appended, and Manager.errors has grown again since the second.
C12_Witness ==
    /\ Len(views) = 2
    /\ Len(views[1].ret) > 0
    /\ Len(views[2].ret) > Len(views[1].ret)
    /\ Len(errors) > Len(views[2].ret)

\* C13: at most one handleSignals is ever started; the Manager's timeout and
\* parent context are those of the one call that built it; once built, no
\* step changes timeout, parent or listener, and a later call of
\* NewManagerWithContext changes nothing but what the client holds; the
\* shutdown body runs only if the parent context of the first call is
\* cancelled, never for the context of a later call.
C13_ConstructionIdempotent ==
    /\ [](/\ listeners <= 1
          /\ \A i \in 1..Len(got) :
               got[i].res = "created" =>
                 /\ parent = got[i].ctx
                 /\ shutdownTimeout = got[i].t
                 /\ \A j \in 1..Len(got) : got[j].res = "created" => j = i
          /\ bodyRuns > 0 => parentDone)
    /\ [][created => UNCHANGED cfgVars]_vars
    /\ [][(created /\ \E t \in Timeouts, ctx \in Contexts :
                         NewManagerWithContext(t, ctx))
            => UNCHANGED <<cfgVars, ctxVars, sigChan, callVars, runAtShutdown,
                           wgCount, jobVars, errors, watchVars>>]_vars

\* C13 witness: a second call with another timeout and another context found
\* the Manager; that context is cancelled, the parent is not, a shutdown job
\* is registered, and the single listener is still waiting.
C13_Witness ==
    /\ Len(got) >= 2
    /\ got[1].res = "created" /\ got[2].res = "existing"
    /\ got[2].ctx # got[1].ctx /\ got[2].t # got[1].t
    /\ got[2].ctx \in ctxDone
    /\ ~parentDone
    /\ shutdownTimeout = got[1].t
    /\ listeners = 1
    /\ Len(runAtShutdown) > 0
    /\ callPc[Listener] = "listen"
    /\ bodyRuns = 0

\* C14: a call of GetManager panics exactly when no Manager has been built,
\* so its panics all come before the call that built the Manager and its
\* successful returns after it, and a call changes nothing of the Manager.
C14_GetManagerPanicsOrReturns ==
    /\ [](\A i \in 1..Len(got) :
            /\ (got[i].call = "GetManager" /\ got[i].res = "manager") =>
                 /\ created
                 /\ \A j \in 1..Len(got) : got[j].res = "created" => j < i
            /\ (got[i].call = "GetManager" /\ got[i].res = "panic") =>
                 \A j \in 1..Len(got) : got[j].res \in {"created", "existing"} => i < j)
    /\ [][GetManager =>
            /\ got'[Len(got')].res = (IF created THEN "manager" ELSE "panic")
            /\ UNCHANGED <<cfgVars, ctxVars, sigChan, callVars, runAtShutdown,
                           wgCount, jobVars, errors, watchVars>>]_vars

\* C14 witness: GetManager panicked, then the Manager was built, then
\* GetManager returned it, with a shutdown job registered in between.
C14_Witness ==
    /\ Len(got) = 3
    /\ got[1].call = "GetManager" /\ got[1].res = "panic"
    /\ got[2].res = "created"
    /\ got[3].call = "GetManager" /\ got[3].res = "manager"
    /\ Len(runAtShutdown) > 0

\* The shutdown job is in the copy `jobs` of some invocation.
InSnapshot(s) ==
    \E c \in Callers : \E i \in 1..Len(snap[c]) : snap[c][i] = s

\* The fan-out loop of the body is over (the watcher has been started).
FanOutOver == watchPc # "none"

\* C15: the shutdown job whose registration returned before anything
\* triggered the shutdown is in the copy of the invocation that runs the
\* body, is launched once the fan-out is over, and no shutdown job is ever
\* launched twice, whatever registrations and triggers run concurrently.
C15_RegisteredJobLaunchedOnce ==
    /\ \A s \in ShutIds : launches[s] <= 1
    /\ \A c \in Callers :
         callPc[c] \in {"fanout", "exit"} => (Len(snap[c]) > 0 /\ snap[c][1] = 1)
    /\ FanOutOver => (launches[1] = 1 /\ sjob[1].pc # "none")

\* C15 witness: the listener and a direct call have both invoked the shutdown
\* routine and returned, and the registered job has been launched once and
\* has ended.
C15_Witness ==
    /\ callPc[Listener] = "stopped"
    /\ callPc[1] = "ret"
    /\ launches[1] = 1
    /\ sjob[1].pc = "done"
    /\ doneCtxDone

\* C16: in TestRunningAndShutdownJob, whichever trigger or triggers fire,
\* when Done is closed and the race was resolved by the join (or the timeout
\* is 0), the running job and the shutdown job have both ended, the shutdown
\* job was launched once, and no failure was recorded.
C16_BothJobsRanOnce ==
    /\ launches[1] <= 1
    /\ (doneCtxDone /\ raceOutcome = "join") =>
         /\ rjob[1].pc = "done"
         /\ sjob[1].pc = "done"
         /\ launches[1] = 1
         /\ errors = <<>>

\* C16 witness: Done closed after the join; a direct call ran or skipped the
\* body and so did the listener, which a cancelled parent context woke.
C16_Witness ==
    /\ doneCtxDone
    /\ raceOutcome = "join"
    /\ rjob[1].pc = "done" /\ sjob[1].pc = "done"
    /\ callPc[1] = "ret"
    /\ callPc[Listener] = "stopped"
    /\ parentDone

\* C17: a shutdown job that is in no copy is never launched; the invocation
\* that leaves the fan-out has launched every job of its copy once; and
\* while the fan-out runs its copy does not change, whatever is appended to
\* runAtShutdown.
C17_LateAppendNotExecuted ==
    /\ [](\A s \in ShutIds :
            ~InSnapshot(s) => (launches[s] = 0 /\ sjob[s].pc = "none"))
    /\ [](\A c \in Callers :
            callPc[c] = "exit" =>
              \A i \in 1..Len(snap[c]) : launches[snap[c][i]] = 1)
    /\ [][\A c \in Callers : callPc[c] = "fanout" => snap'[c] = snap[c]]_vars

\* C17 witness: the second shutdown job was appended after the copy (the
\* copy holds the first only); the first has run, Done is closed, the second
\* was never started.
C17_Witness ==
    /\ Len(runAtShutdown) = 2
    /\ \E c \in Callers : snap[c] = <<1>>
    /\ sjob[1].pc = "done"
    /\ sjob[2].pc = "none"
    /\ doneCtxDone

\* C18 (as stated): once shutdown has begun (shutdownCtx is cancelled), no
\* shutdown job registered from then on is ever launched.
C18_LateShutdownJobNeverRuns == \A s \in ShutIds : launches[s] = 0

\* C19: after shutdown has begun AddRunningJob is never refused (it is
\* enabled whenever the client has a call left, also after Done is closed),
\* it starts the job at once on the routineGroup, and shutdownCtx is
\* cancelled, and stays so, in every state in which such a job exists.
C19_LateRunningJobSeesCancel ==
    /\ [](/\ ShutdownCtxDone
          /\ (CallsMade < MaxCalls /\ rjob[1].pc = "none") => ENABLED AddRunningJob(1))
    /\ [][\A r \in RunIds :
            AddRunningJob(r) =>
              /\ rjob'[r].pc = "exec"
              /\ wgCount' = wgCount + 1]_vars

\* C19 witness: a running job registered after shutdown began is executing,
\* Done is already closed, and only the body's cancel (not the parent)
\* cancelled shutdownCtx.
C19_Witness ==
    /\ Executing(rjob[1])
    /\ ShutdownCtxDone /\ ~parentDone
    /\ doneCtxDone

TimeoutFailures == Cardinality({i \in 1..Len(errors) : errors[i] = TimeoutFailure})

\* C22: the deadline race is a single race.  Until the watcher has left
\* waitForJobsWithTimeout no branch has executed; once it has left, exactly one
\* branch has executed and the outcome never changes again; the failure
\* sequence holds the timeout failure once if that branch was the timeout
\* branch and not at all otherwise.
C22_SingleRace ==
    /\ [](/\ watchPc \in {"none", "wait", "select"} => raceOutcome = "pending"
          /\ watchPc \in {"cancel", "end"} => raceOutcome \in {"join", "timeout"}
          /\ TimeoutFailures = IF raceOutcome = "timeout" THEN 1 ELSE 0)
    /\ [][raceOutcome # "pending" => raceOutcome' = raceOutcome]_vars
    /\ [][(SelectJoin \/ SelectTimeout) => raceOutcome = "pending" /\ watchPc' = "cancel"]_vars

\* C22 witness: the join completed and the deadline fired, and only the
\* timeout branch executed.
C22_Witness ==
    /\ watchPc = "end"
    /\ joinCh
    /\ timerFired
    /\ raceOutcome = "timeout"
    /\ TimeoutFailures = 1

\* ------------------------------------- jobs that finish before the deadline
\* A state a program reaches in waitForJobsWithTimeout with the default
\* timeout: one running job was started, SIGINT made handleSignals run the
\* body, the job returned nil, and the watcher is in its select.  The
\* deadline has not fired; the waiting goroutine has seen the join and has
\* closed done, or is about to.
JoinedBeforeDeadlineInit ==
    /\ created = TRUE
    /\ shutdownTimeout = DefaultTimeout
    /\ parent = "ctx"
    /\ listeners = 1
    /\ ctxDone = {}
    /\ cancelCalled = TRUE
    /\ doneCtxDone = FALSE
    /\ doneCancels = 0
    /\ sigChan = <<>>
    /\ callPc = [c \in Callers |-> IF c = Listener THEN "stopped" ELSE "idle"]
    /\ snap = [c \in Callers |-> <<>>]
    /\ idx = [c \in Callers |-> 1]
    /\ onceDone = TRUE
    /\ onceM = FALSE
    /\ bodyRuns = 1
    /\ runAtShutdown = <<>>
    /\ wgCount = 0
    /\ rjob = [r \in RunIds |-> IF r = 1 THEN [pc |-> "done", out |-> "nil"]
                                 ELSE [pc |-> "none", out |-> "none"]]
    /\ sjob = [s \in ShutIds |-> [pc |-> "none", out |-> "none"]]
    /\ launches = [s \in ShutIds |-> 0]
    /\ errors = <<>>
    /\ watchPc = "select"
    /\ joinCh \in BOOLEAN
    /\ waitPc = IF joinCh THEN "end" ELSE "wait"
    /\ timerFired = FALSE
    /\ raceOutcome = "pending"
    /\ preJobs = {1}
    /\ views = <<>>
    /\ got = <<>>
    /\ crashed = FALSE
    /\ lock = Unlocked
    /\ op = [p \in LockUsers |-> Outside]

\* From there the race is run to its end while the client goes on: it may
\* start or register further jobs, call doGracefulShutdown, cancel the
\* parent context and read Errors().
JoinedBeforeDeadlineNext ==
    \/ WaiterJoin
    \/ TimerFire
    \/ SelectJoin
    \/ SelectTimeout
    \/ WatchCancel
    \/ CancelParent
    \/ \E r \in RunIds : AddRunningJob(r)
    \/ \E r \in RunIds, out \in Outcomes : RunningJobEnds(r, out)
    \/ AddShutdownJob
    \/ \E c \in Callers : DirectCall(c)
    \/ Errors

JoinedBeforeDeadlineSpec == JoinedBeforeDeadlineInit /\ [][JoinedBeforeDeadlineNext]_vars

\* C23: every awaited job had finished before the deadline fired, so the
\* join-first branch is taken and no timeout failure is ever recorded.
C23_JoinedFirstNoTimeoutFailure == raceOutcome # "timeout" /\ ~HasTimeoutFailure

\* ------------------------------------------------ the triggers of a shutdown
\* Fairness of handleSignals' goroutine: it is scheduled while it can take a
\* step, and its select, which picks at random among the ready cases, does
\* not pass over a case that stays ready for ever.
ListenerFairness ==
    /\ WF_vars(ListenerSignal)
    /\ WF_vars(ListenerCtxDone)
    /\ WF_vars(ListenerCall)

\* The program with one registered shutdown job, with the coordinator's
\* goroutines and the listener scheduled fairly.
RegisteredFairSpec == RegisteredSpec /\ Fairness /\ ListenerFairness

\* A termination signal is waiting in the channel of the listening loop.
TerminationSignalDelivered ==
    /\ callPc[Listener] = "listen"
    /\ sigChan # <<>>
    /\ Head(sigChan) \in {"SIGINT", "SIGTERM"}

\* doGracefulShutdown has been invoked directly.
InvokedDirectly == \E c \in Callers : c # Listener /\ callPc[c] \notin {"off", "idle"}

\* The body has fired: shutdownCtx is cancelled by the body and the shutdown
\* job registered before the trigger has been handed to the worker group.
ShutdownFired ==
    /\ cancelCalled
    /\ FanOutOver
    /\ launches[1] = 1

ListenerTriggered == callPc[Listener] \notin {"off", "listen", "stopped"}

\* C25: the listener terminates after the first termination cause it
\* handles: from then on it never listens again, it returns, and once
\* returned it stays so.  A signal of another kind is only taken from the
\* channel: the loop goes on, no invocation is made and nothing else changes,
\* so the loop can still read a later SIGINT or SIGTERM and trigger on it.
C25_ListenerStopsAfterFirstCause ==
    /\ ListenerTriggered ~> (callPc[Listener] = "stopped")
    /\ TerminationSignalDelivered ~> (ShutdownFired /\ callPc[Listener] = "stopped")
    /\ [][ListenerTriggered => callPc'[Listener] # "listen"]_vars
    /\ [][callPc[Listener] = "stopped" => callPc'[Listener] = "stopped"]_vars
    /\ [][(ListenerSignal /\ Head(sigChan) \notin {"SIGINT", "SIGTERM"}) =>
            /\ callPc' = callPc
            /\ callPc[Listener] = "listen"
            /\ UNCHANGED <<cfgVars, ctxVars, snap, idx, onceDone, onceM, bodyRuns,
                           runAtShutdown, wgCount, jobVars, errors, watchVars>>]_vars
    /\ [][(ListenerSignal /\ Head(sigChan) \in {"SIGINT", "SIGTERM"}) =>
            callPc'[Listener] = "call"]_vars

\* C25 witness: the listener has returned after a signal made it run the
\* body (the parent context is not cancelled, nobody else invoked the routine).
C25_Witness ==
    /\ callPc[Listener] = "stopped"
    /\ bodyRuns = 1
    /\ onceDone
    /\ sigChan = <<>>
    /\ ~parentDone
    /\ ~InvokedDirectly
    /\ doneCtxDone

\* C26 (as stated): every distinct cause that occurs is forwarded by an
\* invocation of its own.  The listener never listens again once it has
\* recognized a cause, so a cause it is to forward must find it listening:
\* when the parent context is cancelled, handleSignals is in its loop.
C26_EachCauseForwarded ==
    [][(created /\ ~parentDone /\ parentDone') => callPc[Listener] = "listen"]_vars

\* C26 (amended): the listener forwards one cause, the first it recognizes,
\* with one invocation.  It gets to the invocation only from the loop, by
\* reading a termination signal or the cancelled parent context; the
\* invocation is made once; the loop is never entered again; a cause that
\* occurs afterwards leaves the listener as it is.
C26_FirstCauseForwardedOnce ==
    /\ [][(callPc[Listener] # "call" /\ callPc'[Listener] = "call") =>
            /\ callPc[Listener] = "listen"
            /\ ListenerCtxDone \/ (ListenerSignal /\ Head(sigChan) \in {"SIGINT", "SIGTERM"})]_vars
    /\ [][ListenerCall => callPc'[Listener] \notin {"listen", "call"}]_vars
    /\ [][(ListenerTriggered \/ callPc[Listener] = "stopped") =>
            /\ callPc'[Listener] # "listen"
            /\ callPc'[Listener] = "call" => callPc[Listener] = "call"]_vars
    /\ [][((ListenerTriggered \/ callPc[Listener] = "stopped") /\ CancelParent) =>
            callPc' = callPc]_vars

\* C26 witness: two causes have occurred, the cancellation of the parent
\* context and a SIGTERM that is still unread in the channel, and the
\* listener is making its one invocation.
C26_Witness ==
    /\ callPc[Listener] = "call"
    /\ parentDone
    /\ sigChan = <<"SIGTERM">>
    /\ bodyRuns = 0

\* C27: ShutdownContext() returns g.shutdownCtx, the context every running
\* job is called with, and its cancellation is one-way: once Done() of it is
\* closed it is closed in every later state.  Likewise Manager.Done(), once
\* closed, stays closed.
C27_SignalsOneWay ==
    /\ [][ShutdownCtxDone => ShutdownCtxDone']_vars
    /\ [][cancelCalled => cancelCalled']_vars
    /\ [][doneCtxDone => doneCtxDone']_vars

\* C27 witness: both signals are set while a running job, started after the
\* cancellation, still holds the cancelled context, and the body that
\* cancelled it has returned.
C27_Witness ==
    /\ ShutdownCtxDone
    /\ cancelCalled
    /\ doneCtxDone
    /\ onceDone
    /\ \E r \in RunIds : Executing(rjob[r]) /\ r \notin preJobs

\* The invocation that runs, or ran, the body has handed every job of its
\* snapshot to routineGroup.Run exactly once.
FanOutComplete ==
    \A c \in Callers :
        /\ callPc[c] \in {"cancel", "copy", "fanout"} => watchPc = "none"
        /\ \A i \in 1..Len(snap[c]) : launches[snap[c][i]] = 1

\* C28: the watcher, and with it the deadline timer and the goroutine that
\* waits for the join, starts only after the fan-out: whenever the watcher
\* exists, every snapshotted shutdown job has been launched, so the join
\* counter covers each of them until it has returned; and the step that starts
\* the watcher leaves the fan-out loop with no snapshotted job unlaunched.
C28_FanOutBeforeWatcher ==
    /\ [](FanOutOver => FanOutComplete)
    /\ [](FanOutOver => wgCount >= Cardinality({s \in ShutIds : Executing(sjob[s])})
                                   + Cardinality({r \in RunIds : Executing(rjob[r])}))
    /\ []((timerFired \/ joinCh \/ raceOutcome # "pending" \/ waitPc # "none") => FanOutOver)
    /\ [][(~FanOutOver /\ FanOutOver') =>
            \E c \in Callers : /\ ShutdownSpawn(c)
                               /\ idx[c] = Len(snap[c]) + 1
                               /\ snap[c] = runAtShutdown \/ IsPrefix(snap[c], runAtShutdown)]_vars

\* C28 witness: two registered shutdown jobs were both launched and are
\* executing while the watcher has just started its race.
C28_Witness ==
    /\ watchPc = "select"
    /\ ~timerFired
    /\ ~joinCh
    /\ \E c \in Callers : snap[c] = <<1, 2>>
    /\ \A s \in {1, 2} : launches[s] = 1 /\ Executing(sjob[s])
    /\ wgCount = 2

\* The invocation c is in the body of shutdownOnce.Do.
InBody(c) == callPc[c] \in {"cancel", "copy", "fanout", "exit"}

\* C29 (as stated): an invocation other than the first never blocks: one
\* that has reached doSlow can take its next step at once, also while the
\* first invocation's body is executing.
C29_NeverBlocks ==
    \A c \in Callers : callPc[c] = "slow" => ENABLED OnceSlow(c)

\* C29 (amended): an invocation other than the first never runs the body and
\* changes nothing but its own position.  One that finds done set returns at
\* once.  One made while the first invocation's body is executing waits in
\* doSlow for o.m: it cannot step as long as the body holds the mutex, and can
\* as soon as the mutex is free.
C29_LaterInvocationsWait ==
    /\ [](\A c \in Callers : (callPc[c] = "slow" /\ onceM) => ~ENABLED OnceSlow(c))
    /\ [](\A c \in Callers : (callPc[c] = "slow" /\ ~onceM) => ENABLED OnceSlow(c))
    /\ [](bodyRuns <= 1 /\ (onceM <=> \E c \in Callers : InBody(c)))
    /\ [][\A c \in Callers :
            ((onceDone \/ onceM) /\ (DirectCall(c) \/ (c = Listener /\ ListenerCall) \/ OnceSlow(c))) =>
              /\ ~InBody(c)'
              /\ \A q \in Callers \ {c} : callPc'[q] = callPc[q]
              /\ UNCHANGED <<cfgVars, ctxVars, snap, idx, onceDone, onceM, bodyRuns,
                             runAtShutdown, wgCount, jobVars, errors, watchVars>>]_vars
    /\ [][\A c \in Callers :
            (onceDone /\ (DirectCall(c) \/ (c = Listener /\ ListenerCall) \/ OnceSlow(c))) =>
              callPc'[c] \in {"ret", "stopped"}]_vars

\* C29 witness: a direct invocation waits in doSlow while the listener's
\* invocation is in the fan-out loop of the body.
C29_Witness ==
    /\ callPc[Listener] = "fanout"
    /\ onceM
    /\ ~onceDone
    /\ \E c \in Callers : c # Listener /\ callPc[c] = "slow"

\* ------------------------------------------------------------ Manager.lock
\* The critical sections of manager.go, one statement at a time.  Every
\* variable but the lock and the positions in the critical sections:
dataVars == <<apiVars, cfgVars, ctxVars, sigChan, callVars, runAtShutdown,
              wgCount, jobVars, errors, watchVars, crashed>>

\* The goroutines that append to g.errors, and all that take the write side.
ErrorWriters == ({"run"} \X RunIds) \cup ({"shut"} \X ShutIds) \cup {<<"timeout", 0>>}
Writers == ErrorWriters \cup {<<"add", 0>>}

\* The job a wrapper runs.
JobOf(kind, id) == IF kind = "run" THEN rjob[id] ELSE sjob[id]

\* sync.RWMutex: Lock returns when nobody holds either side, RLock when
\* nobody holds the write side.
CanLock == lock.w = {} /\ lock.r = {}
CanRLock == lock.w = {}

\* g.lock.Lock() returns to p.
Lock(p) ==
    /\ op[p].pc = "idle"
    /\ CanLock
    /\ lock' = [lock EXCEPT !.w = @ \cup {p}]
    /\ op' = [op EXCEPT ![p].pc = "locked"]

\* g.lock.RLock() returns to p.
RLock(p) ==
    /\ op[p].pc = "idle"
    /\ CanRLock
    /\ lock' = [lock EXCEPT !.r = @ \cup {p}]
    /\ op' = [op EXCEPT ![p].pc = "locked"]

\* g.lock.Unlock() and g.lock.RUnlock() by p.
Unlock(p) ==
    /\ lock' = [lock EXCEPT !.w = @ \ {p}]
    /\ op' = [op EXCEPT ![p] = Outside]

RUnlock(p) ==
    /\ lock' = [lock EXCEPT !.r = @ \ {p}]
    /\ op' = [op EXCEPT ![p] = Outside]

\* A wrapper that goes on to the append without taking the lock.
WrapperNoLock(kind, id, out) ==
    /\ ~crashed
    /\ Executing(JobOf(kind, id))
    /\ JobOf(kind, id).out = "none"
    /\ op[<<kind, id>>].pc = "idle"
    /\ op' = [op EXCEPT ![<<kind, id>>].pc = "locked"]
    /\ IF kind = "run"
         THEN rjob' = [rjob EXCEPT ![id].out = out] /\ UNCHANGED sjob
         ELSE sjob' = [sjob EXCEPT ![id].out = out] /\ UNCHANGED rjob
    /\ UNCHANGED <<lock, apiVars, cfgVars, ctxVars, sigChan, callVars, runAtShutdown,
                   wgCount, launches, preJobs, errors, watchVars, crashed>>

\* The job function has returned an error or has panicked (and the deferred
\* recover() has caught it): the wrapper calls g.lock.Lock().
WrapperLock(kind, id, out) ==
    /\ ~crashed
    /\ Executing(JobOf(kind, id))
    /\ JobOf(kind, id).out = "none"
    /\ Lock(<<kind, id>>)
    /\ IF kind = "run"
         THEN rjob' = [rjob EXCEPT ![id].out = out] /\ UNCHANGED sjob
         ELSE sjob' = [sjob EXCEPT ![id].out = out] /\ UNCHANGED rjob
    /\ UNCHANGED <<apiVars, cfgVars, ctxVars, sigChan, callVars, runAtShutdown,
                   wgCount, launches, preJobs, errors, watchVars, crashed>>

\* g.errors = append(g.errors, err): the slice is read ...
WrapperRead(kind, id) ==
    /\ op[<<kind, id>>].pc = "locked"
    /\ op' = [op EXCEPT ![<<kind, id>>] = [pc |-> "read", tmp |-> errors]]
    /\ UNCHANGED <<lock, dataVars>>

\* ... and the extended slice is stored.
WrapperAppend(kind, id) ==
    /\ op[<<kind, id>>].pc = "read"
    /\ errors' = Append(op[<<kind, id>>].tmp, JobFailure(kind, id, JobOf(kind, id).out))
    /\ op' = [op EXCEPT ![<<kind, id>>].pc = "wrote"]
    /\ UNCHANGED <<lock, apiVars, cfgVars, ctxVars, sigChan, callVars, runAtShutdown,
                   wgCount, jobVars, watchVars, crashed>>

\* g.lock.Unlock(); the wrapper returns and Run's deferred waitGroup.Done()
\* releases the barrier.
WrapperUnlock(kind, id) ==
    /\ op[<<kind, id>>].pc = "wrote"
    /\ Unlock(<<kind, id>>)
    /\ IF kind = "run"
         THEN rjob' = [rjob EXCEPT ![id].pc = "done"] /\ UNCHANGED sjob
         ELSE sjob' = [sjob EXCEPT ![id].pc = "done"] /\ UNCHANGED rjob
    /\ wgCount' = RunDone
    /\ UNCHANGED <<apiVars, cfgVars, ctxVars, sigChan, callVars, runAtShutdown,
                   launches, preJobs, errors, watchVars, crashed>>

\* A job function that returns nil: the wrapper does not touch g.errors.
WrapperNil(kind, id) ==
    /\ op[<<kind, id>>].pc = "idle"
    /\ JobOf(kind, id).out = "none"
    /\ IF kind = "run" THEN RunningJobEnds(id, "nil") ELSE doShutdownJob(id, "nil")

\* select takes case <-time.After(...) and logs.
TimeoutCase ==
    /\ ~crashed
    /\ watchPc = "select"
    /\ timerFired
    /\ watchPc' = "timeout"
    /\ raceOutcome' = "timeout"
    /\ UNCHANGED <<lockVars, apiVars, cfgVars, ctxVars, sigChan, callVars, runAtShutdown,
                   wgCount, jobVars, errors, waitPc, joinCh, timerFired, crashed>>

\* The timeout branch: g.lock.Lock() ...
TimeoutLock ==
    /\ watchPc = "timeout"
    /\ Lock(<<"timeout", 0>>)
    /\ UNCHANGED dataVars

\* ... g.errors = append(g.errors, msg) ...
TimeoutRead ==
    /\ op[<<"timeout", 0>>].pc = "locked"
    /\ op' = [op EXCEPT ![<<"timeout", 0>>] = [pc |-> "read", tmp |-> errors]]
    /\ UNCHANGED <<lock, dataVars>>

TimeoutAppend ==
    /\ op[<<"timeout", 0>>].pc = "read"
    /\ errors' = Append(op[<<"timeout", 0>>].tmp, TimeoutFailure)
    /\ op' = [op EXCEPT ![<<"timeout", 0>>].pc = "wrote"]
    /\ UNCHANGED <<lock, apiVars, cfgVars, ctxVars, sigChan, callVars, runAtShutdown,
                   wgCount, jobVars, watchVars, crashed>>

\* ... g.lock.Unlock(), and waitForJobsWithTimeout returns.
TimeoutUnlock ==
    /\ op[<<"timeout", 0>>].pc = "wrote"
    /\ Unlock(<<"timeout", 0>>)
    /\ watchPc' = "cancel"
    /\ UNCHANGED <<apiVars, cfgVars, ctxVars, sigChan, callVars, runAtShutdown,
                   wgCount, jobVars, errors, waitPc, joinCh, timerFired,
                   raceOutcome, crashed>>

\* AddShutdownJob: g.lock.Lock() ...
AddShutdownJobLock ==
    /\ ~crashed
    /\ created
    /\ CallsMade < MaxCalls
    /\ Lock(<<"add", 0>>)
    /\ UNCHANGED dataVars

\* ... g.runAtShutdown = append(g.runAtShutdown, f) ...
AddShutdownJobRead ==
    /\ op[<<"add", 0>>].pc = "locked"
    /\ op' = [op EXCEPT ![<<"add", 0>>] = [pc |-> "read", tmp |-> runAtShutdown]]
    /\ UNCHANGED <<lock, dataVars>>

AddShutdownJobAppend ==
    /\ op[<<"add", 0>>].pc = "read"
    /\ Len(op[<<"add", 0>>].tmp) < MaxCalls
    /\ runAtShutdown' = Append(op[<<"add", 0>>].tmp, Len(op[<<"add", 0>>].tmp) + 1)
    /\ op' = [op EXCEPT ![<<"add", 0>>].pc = "wrote"]
    /\ UNCHANGED <<lock, apiVars, cfgVars, ctxVars, sigChan, callVars,
                   wgCount, jobVars, errors, watchVars, crashed>>

\* ... g.lock.Unlock().
AddShutdownJobUnlock ==
    /\ op[<<"add", 0>>].pc = "wrote"
    /\ Unlock(<<"add", 0>>)
    /\ UNCHANGED dataVars

\* The body's copy of the registry: g.lock.RLock() ...
CopyRLock(c) ==
    /\ ~crashed
    /\ callPc[c] = "copy"
    /\ RLock(<<"copy", 0>>)
    /\ UNCHANGED dataVars

\* ... jobs := make([]ShutdownJob, len(g.runAtShutdown)) ...
CopyMake(c) ==
    /\ callPc[c] = "copy"
    /\ op[<<"copy", 0>>].pc = "locked"
    /\ op' = [op EXCEPT ![<<"copy", 0>>] =
                 [pc |-> "read", tmp |-> [i \in 1..Len(runAtShutdown) |-> 0]]]
    /\ UNCHANGED <<lock, dataVars>>

\* ... copy(jobs, g.runAtShutdown): min(len(jobs), len(g.runAtShutdown))
\* elements are copied ...
CopyCopy(c) ==
    /\ callPc[c] = "copy"
    /\ op[<<"copy", 0>>].pc = "read"
    /\ op' = [op EXCEPT ![<<"copy", 0>>] =
                 [pc |-> "wrote",
                  tmp |-> [i \in 1..Len(op[<<"copy", 0>>].tmp) |->
                             IF i <= Len(runAtShutdown) THEN runAtShutdown[i] ELSE 0]]]
    /\ UNCHANGED <<lock, dataVars>>

\* ... g.lock.RUnlock(); the loop over jobs starts.
CopyRUnlock(c) ==
    /\ callPc[c] = "copy"
    /\ op[<<"copy", 0>>].pc = "wrote"
    /\ RUnlock(<<"copy", 0>>)
    /\ snap' = [snap EXCEPT ![c] = op[<<"copy", 0>>].tmp]
    /\ idx' = [idx EXCEPT ![c] = 1]
    /\ callPc' = [callPc EXCEPT ![c] = "fanout"]
    /\ UNCHANGED <<apiVars, cfgVars, ctxVars, sigChan, onceDone, onceM, bodyRuns,
                   runAtShutdown, wgCount, jobVars, errors, watchVars, crashed>>

\* Errors(): g.lock.RLock() ...
ErrorsRLock ==
    /\ ~crashed
    /\ created
    /\ RLock(<<"errs", 0>>)
    /\ UNCHANGED dataVars

\* ... result := make([]error, len(g.errors)) ...
ErrorsMake ==
    /\ op[<<"errs", 0>>].pc = "locked"
    /\ op' = [op EXCEPT ![<<"errs", 0>>] =
                 [pc |-> "read", tmp |-> [i \in 1..Len(errors) |-> 0]]]
    /\ UNCHANGED <<lock, dataVars>>

\* ... copy(result, g.errors) ...
ErrorsCopy ==
    /\ op[<<"errs", 0>>].pc = "read"
    /\ op' = [op EXCEPT ![<<"errs", 0>>] =
                 [pc |-> "wrote",
                  tmp |-> [i \in 1..Len(op[<<"errs", 0>>].tmp) |->
                             IF i <= Len(errors) THEN errors[i] ELSE 0]]]
    /\ UNCHANGED <<lock, dataVars>>

\* ... return result, with the deferred g.lock.RUnlock().  The caller logs
\* the result and drops it.
ErrorsRUnlock ==
    /\ op[<<"errs", 0>>].pc = "wrote"
    /\ RUnlock(<<"errs", 0>>)
    /\ UNCHANGED dataVars

\* The program with one registered shutdown job, with its critical sections
\* taken statement by statement.  The cancellation of the parent context
\* triggers the shutdown.
LockNext ==
    \/ CancelParent
    \/ ListenerCtxDone
    \/ ListenerCall
    \/ \E c \in Callers : OnceSlow(c)
    \/ \E c \in Callers : ShutdownCancel(c)
    \/ \E c \in Callers : CopyRLock(c)
    \/ \E c \in Callers : CopyMake(c)
    \/ \E c \in Callers : CopyCopy(c)
    \/ \E c \in Callers : CopyRUnlock(c)
    \/ \E c \in Callers : ShutdownLaunch(c)
    \/ \E c \in Callers : ShutdownSpawn(c)
    \/ \E c \in Callers : OnceExit(c)
    \/ \E r \in RunIds : AddRunningJob(r)
    \/ \E kind \in {"run", "shut"}, id \in RunIds, out \in {"err", "panic"} : WrapperLock(kind, id, out)
    \/ \E kind \in {"run", "shut"}, id \in RunIds : WrapperRead(kind, id)
    \/ \E kind \in {"run", "shut"}, id \in RunIds : WrapperAppend(kind, id)
    \/ \E kind \in {"run", "shut"}, id \in RunIds : WrapperUnlock(kind, id)
    \/ \E kind \in {"run", "shut"}, id \in RunIds : WrapperNil(kind, id)
    \/ AddShutdownJobLock
    \/ AddShutdownJobRead
    \/ AddShutdownJobAppend
    \/ AddShutdownJobUnlock
    \/ WatchWait
    \/ WaiterJoin
    \/ TimerFire
    \/ SelectJoin
    \/ TimeoutCase
    \/ TimeoutLock
    \/ TimeoutRead
    \/ TimeoutAppend
    \/ TimeoutUnlock
    \/ WatchCancel
    \/ ErrorsRLock
    \/ ErrorsMake
    \/ ErrorsCopy
    \/ ErrorsRUnlock

LockSpec == RegisteredInit /\ [][LockNext]_vars

\* The failures that have been appended: those of the jobs that ended with
\* one, those of the wrappers and of the timeout branch that have stored the
\* slice and still hold the lock, and that of the finished timeout branch.
Appended ==
    Cardinality({r \in RunIds : rjob[r].pc = "done" /\ rjob[r].out \in {"err", "panic"}})
    + Cardinality({s \in ShutIds : sjob[s].pc = "done" /\ sjob[s].out \in {"err", "panic"}})
    + Cardinality({p \in ErrorWriters : op[p].pc = "wrote"})
    + (IF watchPc \in {"cancel", "end"} /\ raceOutcome = "timeout" THEN 1 ELSE 0)

\* C30: g.errors and g.runAtShutdown are accessed only under g.lock.  A
\* goroutine inside one of the critical sections holds the write side if it
\* appends and the read side if it copies; the write side has one holder at a
\* time and none while the read side is held.  So between the read and the
\* store of an append the slice is not changed by anyone, what a reader
\* copies is the slice as it stands, no append is lost, and every change of
\* the two slices is the append of one element by the holder of the write side.
C30_AccessUnderLock ==
    /\ [](/\ Cardinality(lock.w) <= 1
          /\ lock.w # {} => lock.r = {}
          /\ lock.w \subseteq Writers
          /\ lock.r \subseteq LockUsers \ Writers
          /\ \A p \in LockUsers : op[p].pc # "idle" <=> p \in lock.w \cup lock.r)
    /\ [](/\ \A p \in ErrorWriters : op[p].pc = "read" => op[p].tmp = errors
          /\ op[<<"add", 0>>].pc = "read" => op[<<"add", 0>>].tmp = runAtShutdown
          /\ op[<<"errs", 0>>].pc = "read" => Len(op[<<"errs", 0>>].tmp) = Len(errors)
          /\ op[<<"errs", 0>>].pc = "wrote" => op[<<"errs", 0>>].tmp = errors
          /\ op[<<"copy", 0>>].pc = "read" => Len(op[<<"copy", 0>>].tmp) = Len(runAtShutdown)
          /\ op[<<"copy", 0>>].pc = "wrote" => op[<<"copy", 0>>].tmp = runAtShutdown)
    /\ [](/\ Len(errors) = Appended
          /\ \A i \in 1..Len(runAtShutdown) : runAtShutdown[i] = i)
    /\ [][errors' # errors =>
            /\ \E p \in lock.w : p \in ErrorWriters /\ op[p].pc = "read" /\ op'[p].pc = "wrote"
            /\ Len(errors') = Len(errors) + 1
            /\ IsPrefix(errors, errors')]_vars
    /\ [][runAtShutdown' # runAtShutdown =>
            /\ lock.w = {<<"add", 0>>}
            /\ Len(runAtShutdown') = Len(runAtShutdown) + 1
            /\ IsPrefix(runAtShutdown, runAtShutdown')]_vars

\* C30 witness: the wrapper of a running job is between the read and the
\* store of its append, holding the write side, after the timeout failure and
\* the failure of the shutdown job were appended.
C30_Witness ==
    /\ lock.w = {<<"run", 1>>}
    /\ op[<<"run", 1>>].pc = "read"
    /\ Len(errors) = 2
    /\ HasTimeoutFailure
    /\ sjob[1].pc = "done"
    /\ sjob[1].out = "panic"

\* C31: the routineGroup is a counted join barrier.  The step that starts a
\* task is the step that adds one to the counter (Add precedes the go
\* statement); the step in which a task ends, by a return or by a panic,
\* takes one off; the counter is never negative; and Wait returns, to the
\* watcher or to the waiting goroutine, only in a state where no task that
\* was started is still executing.
C31_CountedJoinBarrier ==
    /\ [](wgCount >= 0)
    /\ [][ExecutingCount' > ExecutingCount =>
            /\ ExecutingCount' = ExecutingCount + 1
            /\ wgCount' = wgCount + 1]_vars
    /\ [][ExecutingCount' < ExecutingCount =>
            /\ ExecutingCount' = ExecutingCount - 1
            /\ wgCount' = wgCount - 1]_vars
    /\ [][\A j \in RunIds :
            (RunningJobEnds(j, "panic") \/ doShutdownJob(j, "panic")) =>
              wgCount' = wgCount - 1]_vars
    /\ [][(WatchWait \/ WaiterJoin) =>
            /\ wgCount = 0
            /\ ExecutingCount = 0
            /\ \A r \in RunIds : rjob[r].pc \in {"none", "done"}
            /\ \A s \in ShutIds : sjob[s].pc \in {"none", "done"}]_vars

\* C31 witness: Wait has returned after two tasks were started and both
\* ended, one of them by a panic.
C31_Witness ==
    /\ raceOutcome = "join"
    /\ wgCount = 0
    /\ rjob[1].pc = "done"
    /\ rjob[1].out = "panic"
    /\ sjob[1].pc = "done"
    /\ sjob[1].out = "nil"

\* C32: with timeout 0 the wait is unbounded.  Done stays open as long as a
\* running job launched before the body fired, or a launched shutdown job, is
\* still executing, however long that is; and whenever, after the body has
\* fired, no job is executing, Done is eventually closed unless a job is
\* started in the meantime, so Done closes if every launched job returns.
C32_UnboundedWait ==
    /\ []((shutdownTimeout = 0 /\ \E r \in preJobs : Executing(rjob[r])) => ~doneCtxDone)
    /\ []((shutdownTimeout = 0 /\ \E s \in ShutIds : Executing(sjob[s])) => ~doneCtxDone)
    /\ [][(shutdownTimeout = 0 /\ ~doneCtxDone /\ doneCtxDone') =>
            /\ WatchCancel
            /\ raceOutcome = "join"
            /\ ~timerFired]_vars
    /\ (shutdownTimeout = 0 /\ bodyRuns > 0 /\ ExecutingCount = 0)
          ~> (doneCtxDone \/ ExecutingCount > 0)

\* C32 witness: with timeout 0, Done closed after a running job launched
\* before the trigger returned an error and the shutdown job returned.
C32_Witness ==
    /\ shutdownTimeout = 0
    /\ doneCtxDone
    /\ 1 \in preJobs
    /\ rjob[1].out = "err"
    /\ sjob[1].pc = "done"
    /\ errors # <<>>

\* ------------------------------------------------------ the logger and the lock
\* A deferred recover() that takes the lock before it logs the panic.
WrapperPanicsUnderLock(kind, id) ==
    /\ ~crashed
    /\ Executing(JobOf(kind, id))
    /\ JobOf(kind, id).out = "none"
    /\ op[<<kind, id>>].pc = "idle"
    /\ CanLock
    /\ lock' = [lock EXCEPT !.w = @ \cup {<<kind, id>>}]
    /\ op' = [op EXCEPT ![<<kind, id>>].pc = "log"]
    /\ IF kind = "run"
         THEN rjob' = [rjob EXCEPT ![id].out = "panic"] /\ UNCHANGED sjob
         ELSE sjob' = [sjob EXCEPT ![id].out = "panic"] /\ UNCHANGED rjob
    /\ UNCHANGED <<apiVars, cfgVars, ctxVars, sigChan, callVars, runAtShutdown,
                   wgCount, launches, preJobs, errors, watchVars, crashed>>

\* The job function has panicked: the deferred recover() catches it, builds
\* msg and calls g.logger.Errorf(msg.Error()).
WrapperPanics(kind, id) ==
    /\ ~crashed
    /\ Executing(JobOf(kind, id))
    /\ JobOf(kind, id).out = "none"
    /\ op[<<kind, id>>].pc = "idle"
    /\ op' = [op EXCEPT ![<<kind, id>>].pc = "log"]
    /\ IF kind = "run"
         THEN rjob' = [rjob EXCEPT ![id].out = "panic"] /\ UNCHANGED sjob
         ELSE sjob' = [sjob EXCEPT ![id].out = "panic"] /\ UNCHANGED rjob
    /\ UNCHANGED <<lock, apiVars, cfgVars, ctxVars, sigChan, callVars, runAtShutdown,
                   wgCount, launches, preJobs, errors, watchVars, crashed>>

\* Errorf has returned and g.lock.Lock() returns.
WrapperLogged(kind, id) ==
    /\ op[<<kind, id>>].pc = "log"
    /\ CanLock
    /\ lock' = [lock EXCEPT !.w = @ \cup {<<kind, id>>}]
    /\ op' = [op EXCEPT ![<<kind, id>>].pc = "locked"]
    /\ UNCHANGED dataVars

\* A call of the logger by p is in progress: the Errorf of a recovered panic,
\* or the Errorf of the timeout branch, which precedes its g.lock.Lock().
Logging(p) ==
    \/ op[p].pc = "log"
    \/ p = <<"timeout", 0>> /\ watchPc = "timeout" /\ op[p].pc = "idle"

\* The paths of the coordinator that log and take the lock, statement by
\* statement: the wrappers of the jobs and the timeout branch, in a program
\* with one registered shutdown job that the parent context shuts down.
LogNext ==
    \/ CancelParent
    \/ ListenerCtxDone
    \/ ListenerCall
    \/ \E c \in Callers : OnceSlow(c)
    \/ \E c \in Callers : ShutdownCancel(c)
    \/ \E c \in Callers : CopyRLock(c)
    \/ \E c \in Callers : CopyMake(c)
    \/ \E c \in Callers : CopyCopy(c)
    \/ \E c \in Callers : CopyRUnlock(c)
    \/ \E c \in Callers : ShutdownLaunch(c)
    \/ \E c \in Callers : ShutdownSpawn(c)
    \/ \E c \in Callers : OnceExit(c)
    \/ \E r \in RunIds : AddRunningJob(r)
    \/ \E kind \in {"run", "shut"}, id \in RunIds : WrapperPanics(kind, id)
    \/ \E kind \in {"run", "shut"}, id \in RunIds : WrapperLogged(kind, id)
    \/ \E kind \in {"run", "shut"}, id \in RunIds : WrapperLock(kind, id, "err")
    \/ \E kind \in {"run", "shut"}, id \in RunIds : WrapperRead(kind, id)
    \/ \E kind \in {"run", "shut"}, id \in RunIds : WrapperAppend(kind, id)
    \/ \E kind \in {"run", "shut"}, id \in RunIds : WrapperUnlock(kind, id)
    \/ \E kind \in {"run", "shut"}, id \in RunIds : WrapperNil(kind, id)
    \/ WatchWait
    \/ WaiterJoin
    \/ TimerFire
    \/ SelectJoin
    \/ TimeoutCase
    \/ TimeoutLock
    \/ TimeoutRead
    \/ TimeoutAppend
    \/ TimeoutUnlock
    \/ WatchCancel

\* Every goroutine of the program is scheduled as long as it can take a step;
\* the jobs of this program end.
LogFairSpec == RegisteredInit /\ [][LogNext]_vars /\ WF_vars(LogNext)

\* C33 (as stated): the coordinator logs from within its lock: a run of the
\* paths that log and lock comes to a state in which a logger call is in
\* progress and the calling goroutine holds g.lock.
C33_LogsUnderLock ==
    <>(\E p \in LockUsers : Logging(p) /\ p \in lock.w \cup lock.r)

\* C33 (amended): the coordinator never logs while it holds g.lock.  The
\* goroutine whose logger call is in progress holds neither side of the lock;
\* a goroutine that holds the lock is at one of the slice statements between
\* Lock and Unlock; and the lock is requested only once the logger call has
\* returned.  Another goroutine may hold the lock meanwhile.
C33_NeverLogsUnderLock ==
    /\ [](\A p \in LockUsers : Logging(p) => p \notin lock.w \cup lock.r)
    /\ [](\A p \in lock.w \cup lock.r : op[p].pc \in {"locked", "read", "wrote"})
    /\ [][\A p \in LockUsers :
            (p \notin lock.w /\ p \in lock'.w /\ Logging(p)) => ~Logging(p)']_vars

\* C33 witness: the wrapper of the running job is logging its recovered panic
\* while the wrapper of the shutdown job holds the write side of the lock.
C33_Witness ==
    /\ Logging(<<"run", 1>>)
    /\ lock.w = {<<"shut", 1>>}
    /\ rjob[1].out = "panic"

\* ------------------------------------------------- C34: order of the signals
\* The body of shutdownOnce.Do has fired: an invocation has entered it and
\* executed its first statement, g.shutdownCtxCancel().
BodyFired == bodyRuns > 0 /\ \A c \in Callers : callPc[c] # "cancel"

\* C34: in every reachable state, a closed Done() implies that the body of
\* the shutdown routine has fired, and a fired body implies that shutdownCtx
\* is cancelled (by the body's own call of shutdownCtxCancel); so Done() is
\* never closed while shutdownCtx is live.  The call of shutdownCtxCancel is
\* the step that follows the entry of the body, and Done() is closed only by
\* the watcher, which the body starts.
C34_DoneImpliesFiredImpliesCancelled ==
    /\ [](doneCtxDone => BodyFired)
    /\ [](BodyFired => cancelCalled /\ ShutdownCtxDone)
    /\ [](doneCtxDone => ShutdownCtxDone)
    /\ [](cancelCalled => bodyRuns > 0)
    /\ [](watchPc # "none" => BodyFired)
    /\ [][(~doneCtxDone /\ doneCtxDone') => WatchCancel]_vars

\* Done() is closed after a direct invocation while the parent context is
\* live: the cancellation of shutdownCtx is the body's.
C34_Witness ==
    /\ doneCtxDone
    /\ bodyRuns = 1
    /\ cancelCalled
    /\ ~parentDone

\* ------------------------------------------ C35: shutdown jobs wait for it
\* C35: no shutdown job starts executing unless the body of the shutdown
\* routine has fired.  While the body has not been entered every registered
\* shutdown job is only stored in runAtShutdown: none has been handed to the
\* routineGroup, none executes or has ended.  A shutdown job starts in the
\* fan-out loop of the body only, after the body's call of shutdownCtxCancel,
\* and AddShutdownJob itself starts nothing.
C35_ShutdownJobsOnlyAfterFired ==
    /\ [](bodyRuns = 0 =>
            \A s \in ShutIds : sjob[s].pc = "none" /\ launches[s] = 0)
    /\ [](\A s \in ShutIds : (sjob[s].pc # "none" \/ launches[s] > 0) =>
            BodyFired /\ cancelCalled)
    /\ [][\A s \in ShutIds : (sjob[s].pc = "none" /\ sjob'[s].pc # "none") =>
            /\ sjob'[s].pc = "exec"
            /\ \E c \in Callers : callPc[c] = "fanout" /\ ShutdownLaunch(c)]_vars
    /\ [][runAtShutdown' # runAtShutdown =>
            UNCHANGED <<sjob, launches, wgCount>>]_vars

\* Two shutdown jobs are registered; the listener has taken a termination
\* cause and is about to invoke the routine, whose body has not been entered:
\* both jobs are still only stored.
C35_Witness ==
    /\ bodyRuns = 0
    /\ runAtShutdown = <<1, 2>>
    /\ callPc[Listener] = "call"
    /\ \A s \in ShutIds : sjob[s].pc = "none" /\ launches[s] = 0

\* ------------------------------------------- C36: what starts the shutdown
\* No termination cause has been taken up: the parent context is live, the
\* listener is in its select and doGracefulShutdown has not been invoked
\* directly.
NoCauseTaken ==
    /\ ~parentDone
    /\ callPc[Listener] = "listen"
    /\ ~InvokedDirectly

\* C36: job outcomes never trigger the shutdown.  The end of a running job,
\* whether it returns nil, returns an error or panics, leaves shutdownCtx,
\* Done(), every invocation of the routine and every shutdown job as they
\* are; as long as no termination cause has been taken up shutdownCtx is
\* live, Done() is open, the body has not been entered and no shutdown job
\* has run, whatever the running jobs did.  The routine is entered only
\* through a direct invocation or through the listener, and the listener
\* leaves its select only for a SIGINT, a SIGTERM or the cancellation of the
\* parent context.
C36_JobOutcomesNeverTrigger ==
    /\ [][\A r \in RunIds, out \in Outcomes : RunningJobEnds(r, out) =>
            UNCHANGED <<ctxDone, cancelCalled, doneCtxDone, sigChan, callPc,
                        bodyRuns, onceDone, sjob, launches, watchPc>>]_vars
    /\ [](NoCauseTaken =>
            /\ bodyRuns = 0
            /\ ~ShutdownCtxDone
            /\ ~doneCtxDone
            /\ \A s \in ShutIds : sjob[s].pc = "none")
    /\ [][(callPc[Listener] = "listen" /\ callPc'[Listener] # "listen") =>
            /\ callPc'[Listener] = "call"
            /\ \/ ListenerCtxDone
               \/ ListenerSignal /\ Head(sigChan) \in {"SIGINT", "SIGTERM"}]_vars
    /\ [][\A c \in Callers : (callPc[c] # "slow" /\ callPc'[c] = "slow") =>
            IF c = Listener THEN ListenerCall ELSE DirectCall(c)]_vars
    /\ [][bodyRuns' # bodyRuns => \E c \in Callers : OnceSlow(c)]_vars

\* A running job has panicked and its failure is recorded; no cause has been
\* taken up: the registered shutdown job has not run, shutdownCtx is live and
\* Done() is open.
C36_Witness ==
    /\ NoCauseTaken
    /\ rjob[1] = [pc |-> "done", out |-> "panic"]
    /\ errors # <<>>
    /\ runAtShutdown = <<1>>
    /\ sjob[1].pc = "none"
    /\ ~ShutdownCtxDone
    /\ ~doneCtxDone

\* ------------------------------------------- C37: the size of g.errors
\* Running jobs handed to the routineGroup, and shutdown jobs handed to it.
RunningLaunched == Cardinality({r \in RunIds : rjob[r].pc # "none"})

ShutdownLaunched == Cardinality({s \in ShutIds : launches[s] > 0})

\* C37: each job contributes at most one failure, its returned error or its
\* recovered panic and never both, and only once it has ended with that
\* outcome; the timeout failure is there at most once.  So g.errors is never
\* longer than the number of running jobs launched plus the number of
\* shutdown jobs launched plus one.
C37_AtMostOneFailurePerJob ==
    /\ [](\A r \in RunIds :
            /\ Cardinality(FailuresOf("run", r)) <= 1
            /\ Cardinality(FailuresOf("run", r)) = 1 =>
                 rjob[r].pc = "done" /\ rjob[r].out \in {"err", "panic"})
    /\ [](\A s \in ShutIds :
            /\ Cardinality(FailuresOf("shut", s)) <= 1
            /\ launches[s] <= 1
            /\ Cardinality(FailuresOf("shut", s)) = 1 =>
                 sjob[s].pc = "done" /\ sjob[s].out \in {"err", "panic"})
    /\ [](\A i \in 1..Len(errors) :
            \/ errors[i] = TimeoutFailure
            \/ /\ errors[i].src = "run"
               /\ errors[i] = JobFailure("run", errors[i].id, rjob[errors[i].id].out)
            \/ /\ errors[i].src = "shut"
               /\ errors[i] = JobFailure("shut", errors[i].id, sjob[errors[i].id].out))
    /\ [](TimeoutFailures <= 1)
    /\ [](Len(errors) <= RunningLaunched + ShutdownLaunched + 1)
    /\ [][Len(errors') <= Len(errors) + 1]_vars

\* The bound is met: one running job and one shutdown job were launched, the
\* first returned an error, the second panicked, and the deadline passed.
C37_Witness ==
    /\ RunningLaunched = 1
    /\ ShutdownLaunched = 1
    /\ Len(errors) = 3
    /\ TimeoutFailures = 1
    /\ rjob[1].out = "err"
    /\ sjob[1].out = "panic"

\* ------------------------------------ C38: running jobs registered late
\* C38: with timeout 0, a running job started by AddRunningJob after the
\* body of the shutdown routine was entered and before Done() is closed is
\* awaited as well: the step that closes Done() is not taken while such a
\* job is still executing.
C38_LateRunningJobAwaited ==
    [][(shutdownTimeout = 0 /\ ~doneCtxDone /\ doneCtxDone') =>
          \A r \in RunIds \ preJobs : ~Executing(rjob[r])]_vars

\* ---------------------------------- C39: cancellation leads to the shutdown
\* The job functions terminate: every job that executes ends, so that from
\* some point on (the program starts finitely many jobs) none is executing.
JobsTerminate == <>[](ExecutingCount = 0)

\* C39: shutdownCtx is derived from the parent context, so it is cancelled
\* as soon as the parent is, which can be before the body of the shutdown
\* routine runs: a cancelled shutdownCtx with the body not yet past its first
\* statement is the parent's doing.  Whenever shutdownCtx is cancelled the
\* routine eventually fires (the listener takes its ctx.Done() case and
\* invokes it); then, with a non-zero timeout, Done() is eventually closed
\* whatever the jobs do, and with timeout 0 it is eventually closed if the
\* job functions terminate.
C39_CancelledLeadsToShutdown ==
    /\ [](parentDone => ShutdownCtxDone)
    /\ []((ShutdownCtxDone /\ ~BodyFired) => parentDone)
    /\ ShutdownCtxDone ~> ShutdownFired
    /\ (ShutdownCtxDone /\ shutdownTimeout # 0) ~> doneCtxDone
    /\ JobsTerminate => ((ShutdownCtxDone /\ shutdownTimeout = 0) ~> doneCtxDone)

\* The parent context is cancelled and a running job executes with the
\* cancelled shutdownCtx, while the listener is still in its select and the
\* body has not been entered.
C39_Witness ==
    /\ parentDone
    /\ ShutdownCtxDone
    /\ ~cancelCalled
    /\ bodyRuns = 0
    /\ callPc[Listener] = "listen"
    /\ Executing(rjob[1])

====
